---- MODULE Spec2Model ----
(***************************************************************************)
(* A model of the step-wise interpreter of the memory visualizer:          *)
(*   emulator/runtime/architecture.py  MemoryModel (cells, frames, heap)   *)
(*   emulator/core/*.py                expressions, instructions, builtins *)
(*   emulator/runtime/runner.py        ProgramRunner (the step scheduler)  *)
(* One state of the model is one state of a (MemoryModel, ProgramRunner)   *)
(* pair between two calls of ProgramRunner.step().                         *)
(***************************************************************************)
EXTENDS Integers, Sequences, FiniteSets, TLC

VARIABLES
    program,     \* the compiled Program being run, with its functions (never changes)
    mem,         \* MemoryModel.mem: address -> MemCell
    call_stack,  \* MemoryModel.call_stack: sequence of StackFrame
    sp,          \* MemoryModel._sp
    pc,          \* ProgramRunner.pc: ProgramCounter
    node_ctx,    \* the ExecutionContext objects MethodCall nodes keep on themselves
    err,         \* "" while running, else the exception that ended the session
    last,        \* history: what the last step() call did
    before,      \* history: mem, call_stack and sp when the last step() began
    depths,      \* history: depth of the call stack at each pending call
    callers,     \* history: the caller's position at each pending call
    steps        \* history: the number of step() calls made

vars == <<program, mem, call_stack, sp, pc, node_ctx, err, last, before, depths,
          callers, steps>>

(***************************************************************************)
(* Constants of architecture.py                                            *)
(***************************************************************************)
MEM_SIZE == 26
HEAP_BOTTOM == 1
STACK_LIMIT == 12
STACK_TOP == MEM_SIZE - 1

Addrs == 0 .. (MEM_SIZE - 1)

(***************************************************************************)
(* Python values.  A cell value is None, an int, or one of the two string  *)
(* sentinels Drop writes; an argument of alloc_stack_var may be a list.    *)
(***************************************************************************)
None == [t |-> "None", v |-> 0]
I(n) == [t |-> "int", v |-> n]
FREED == [t |-> "FREED", v |-> 0]
NULL == [t |-> "null", v |-> 0]
L(seq) == [t |-> "list", v |-> seq]

\* isinstance(x, int)
IsInt(x) == x.t = "int"
\* Python truthiness of a value
Truthy(x) == CASE x.t = "None" -> FALSE
               [] x.t = "int" -> x.v # 0
               [] x.t = "list" -> Len(x.v) > 0
               [] OTHER -> TRUE

(***************************************************************************)
(* Labels.  The code builds labels as strings: name, f"{name}.ptr",        *)
(* f"{name}[{i}]".  A label is kept here as its parts, so that the test    *)
(* `"[" in cell.label` of Variable.evaluate can be made: n is the name,    *)
(* f is "" / "ptr" / "len" / "cap" / "[]" and i the index of an "[]" label.*)
(***************************************************************************)
Lbl(n) == [n |-> n, f |-> "", i |-> 0]
Fld(n, f) == [n |-> n, f |-> f, i |-> 0]
Idx(n, i) == [n |-> n, f |-> "[]", i |-> i]
EmptyLabel == Lbl("")
\* the label None (alloc_heap(None, ...), Drop) as opposed to the label ""
NoneLabel == Lbl("<None>")
\* "[" in label
HasBracket(label) == label.f = "[]"

(***************************************************************************)
(* MemCell and StackFrame                                                  *)
(***************************************************************************)
MemCell(value, label, typ, freed, is_pointer, frame_idx) ==
    [value |-> value, label |-> label, typ |-> typ, freed |-> freed,
     is_pointer |-> is_pointer, frame_idx |-> frame_idx]

DefaultCell == MemCell(None, EmptyLabel, "", FALSE, FALSE, -1)

EmptyMap == [x \in {} |-> 0]

StackFrame(name, base_addr, size) ==
    [name |-> name, base_addr |-> base_addr, size |-> size,
     vars_map |-> EmptyMap, slots_allocated |-> 0, contexts |-> EmptyMap]

\* The memory model together with the node-held contexts and the pending
\* exception: the part of the state that evaluate()/execute() read and write.
Machine(m, cs, s, nc, e) ==
    [mem |-> m, call_stack |-> cs, sp |-> s, node_ctx |-> nc, err |-> e]

Raise(m, e) == IF m.err = "" THEN [m EXCEPT !.err = e] ELSE m

\* The({body : x \in {v}}) is body with x standing for the value v: the
\* result of a call is taken once and then read several times
The(S) == CHOOSE v \in S : TRUE

\* Python list indexing: a negative index counts from the end
PyIdx(a) == IF a < 0 THEN a + MEM_SIZE ELSE a
InRange(a) == a >= -MEM_SIZE /\ a < MEM_SIZE

\* a faulty variant of push_frame: the check against STACK_LIMIT is missing
push_frame_unchecked(m, name, size) ==
    [m EXCEPT
       !.call_stack = Append(m.call_stack, StackFrame(name, m.sp - size, size)),
       !.sp = m.sp - size,
       !.mem = [a \in Addrs |->
                  IF a >= m.sp - size /\ a < m.sp
                  THEN MemCell(None, EmptyLabel, "", FALSE, FALSE, Len(m.call_stack))
                  ELSE m.mem[a]]]

(***************************************************************************)
(* MemoryModel.push_frame                                                  *)
(***************************************************************************)
push_frame(m, name, size) ==
    LET new_sp == m.sp - size
        idx == Len(m.call_stack)
        frame == StackFrame(name, new_sp, size)
    IN IF new_sp < STACK_LIMIT
       THEN Raise(m, "Stack Overflow")
       ELSE [m EXCEPT
               !.call_stack = Append(m.call_stack, frame),
               !.sp = new_sp,
               !.mem = [a \in Addrs |->
                          IF a >= new_sp /\ a < new_sp + size
                          THEN MemCell(None, EmptyLabel, "", FALSE, FALSE, idx)
                          ELSE m.mem[a]]]

\* faulty variants of pop_frame: one leaves the cells of the popped frame
\* as they are, the other forgets to move the stack pointer back
pop_frame_keeps_cells(m) ==
    IF m.call_stack = <<>>
    THEN m
    ELSE [m EXCEPT
            !.call_stack = SubSeq(m.call_stack, 1, Len(m.call_stack) - 1),
            !.sp = m.sp + m.call_stack[Len(m.call_stack)].size]

pop_frame_keeps_sp(m) ==
    IF m.call_stack = <<>>
    THEN m
    ELSE [m EXCEPT
            !.call_stack = SubSeq(m.call_stack, 1, Len(m.call_stack) - 1),
            !.mem = [a \in Addrs |->
                       IF /\ a >= m.call_stack[Len(m.call_stack)].base_addr
                          /\ a < m.call_stack[Len(m.call_stack)].base_addr
                                   + m.call_stack[Len(m.call_stack)].size
                       THEN DefaultCell
                       ELSE m.mem[a]]]

\* a pop that also releases what the pointers of the popped frame point to
pop_frame_releases(m) ==
    IF m.call_stack = <<>>
    THEN m
    ELSE LET frame == m.call_stack[Len(m.call_stack)]
             range == frame.base_addr .. (frame.base_addr + frame.size - 1)
         IN [m EXCEPT
               !.call_stack = SubSeq(m.call_stack, 1, Len(m.call_stack) - 1),
               !.mem = [a \in Addrs |->
                          IF a \in range THEN DefaultCell
                          ELSE IF \E b \in range \cap Addrs :
                                    m.mem[b].is_pointer /\ m.mem[b].value = [t |-> "int", v |-> a]
                          THEN DefaultCell
                          ELSE m.mem[a]],
               !.sp = m.sp + frame.size]

(***************************************************************************)
(* MemoryModel.pop_frame                                                   *)
(***************************************************************************)
pop_frame(m) ==
    IF m.call_stack = <<>>
    THEN m
    ELSE LET frame == m.call_stack[Len(m.call_stack)]
         IN [m EXCEPT
               !.call_stack = SubSeq(m.call_stack, 1, Len(m.call_stack) - 1),
               !.mem = [a \in Addrs |->
                          IF a >= frame.base_addr /\ a < frame.base_addr + frame.size
                          THEN DefaultCell
                          ELSE m.mem[a]],
               !.sp = m.sp + frame.size]

(***************************************************************************)
(* MemoryModel.alloc_stack_var: returns [m, addr]                          *)
(***************************************************************************)
alloc_stack_var(m, label, typ, value, is_pointer, span) ==
    IF m.call_stack = <<>>
    THEN [m |-> Raise(m, "IndexError"), addr |-> -1]
    ELSE
    LET top == Len(m.call_stack)
        frame == m.call_stack[top]
        addr == (frame.base_addr + frame.size - span) - frame.slots_allocated
        val(i) == IF value.t = "list" /\ i < Len(value.v) THEN value.v[i + 1] ELSE value
        slot_label(i) == IF span > 1 THEN Idx(label.n, i) ELSE label
        newmem == [a \in Addrs |->
                     IF \E i \in 0 .. (span - 1) : PyIdx(addr + i) = a
                     THEN LET i == CHOOSE j \in 0 .. (span - 1) : PyIdx(addr + j) = a
                          IN MemCell(val(i), slot_label(i), typ, FALSE, is_pointer, top - 1)
                     ELSE m.mem[a]]
        newframe == [frame EXCEPT
                       !.vars_map = IF span > 0
                                    THEN (label :> addr) @@ frame.vars_map
                                    ELSE frame.vars_map,
                       !.slots_allocated = frame.slots_allocated + span]
    IN IF span > 0 /\ ~InRange(addr)
       THEN [m |-> Raise(m, "IndexError"), addr |-> addr]
       ELSE [m |-> [m EXCEPT !.mem = newmem, !.call_stack[top] = newframe],
             addr |-> addr]

\* a faulty variant of _has_enough_space: a freed cell counts as occupied
has_enough_space_ignores_freed(memory, addr, size) ==
    IF addr + size > STACK_LIMIT
    THEN FALSE
    ELSE \A i \in 0 .. (size - 1) : memory[addr + i].value = None

(***************************************************************************)
(* MemoryModel._has_enough_space and MemoryModel.alloc_heap                *)
(***************************************************************************)
has_enough_space(memory, addr, size) ==
    IF addr + size > STACK_LIMIT
    THEN FALSE
    ELSE \A i \in 0 .. (size - 1) :
           ~(memory[addr + i].value # None /\ ~memory[addr + i].freed)

\* the address at which the scan of alloc_heap stops (STACK_LIMIT: it raised)
RECURSIVE heap_scan(_, _, _)
heap_scan(memory, addr, size) ==
    IF has_enough_space(memory, addr, size) THEN addr
    ELSE IF addr + 1 >= STACK_LIMIT THEN STACK_LIMIT
    ELSE heap_scan(memory, addr + 1, size)

alloc_heap(m, label, typ, size) ==
    LET addr == heap_scan(m.mem, HEAP_BOTTOM, size)
    IN IF addr >= STACK_LIMIT
       THEN [m |-> Raise(m, "Heap Overflow"), addr |-> -1]
       ELSE [m |-> [m EXCEPT !.mem = [a \in Addrs |->
                                        IF a >= addr /\ a < addr + size
                                        THEN MemCell(None, label, typ, FALSE, FALSE, -1)
                                        ELSE m.mem[a]]],
             addr |-> addr]

\* a faulty variant of the frame search of get_addr: outermost frame first
frame_lookup_outermost_first(cs, k, label) ==
    IF \E i \in 1 .. k : label \in DOMAIN cs[i].vars_map
    THEN [ok |-> TRUE,
          addr |-> cs[CHOOSE i \in 1 .. k :
                        /\ label \in DOMAIN cs[i].vars_map
                        /\ \A j \in 1 .. (i - 1) : label \notin DOMAIN cs[j].vars_map
                     ].vars_map[label]]
    ELSE [ok |-> FALSE, addr |-> 0]

(***************************************************************************)
(* MemoryModel.get_addr: [ok, addr]; ok = FALSE is the KeyError            *)
(***************************************************************************)
RECURSIVE frame_lookup(_, _, _)
frame_lookup(cs, k, label) ==
    IF k = 0 THEN [ok |-> FALSE, addr |-> 0]
    ELSE IF label \in DOMAIN cs[k].vars_map
         THEN [ok |-> TRUE, addr |-> cs[k].vars_map[label]]
         ELSE frame_lookup(cs, k - 1, label)

heap_lookup(memory, label) ==
    LET hits == {a \in Addrs : memory[a].label = label /\ memory[a].frame_idx = -1}
    IN IF hits = {} THEN [ok |-> FALSE, addr |-> 0]
       ELSE [ok |-> TRUE, addr |-> CHOOSE a \in hits : \A b \in hits : a <= b]

get_addr(m, label) ==
    LET fa == frame_lookup(m.call_stack, Len(m.call_stack), label)
    IN IF fa.ok THEN fa ELSE heap_lookup(m.mem, label)

(***************************************************************************)
(* base.py: EvaluationResult, ExecutionStatus, ExecutionContext            *)
(***************************************************************************)
ER(values, typ, is_pointer) ==
    [k |-> "ER", values |-> values, typ |-> typ, is_pointer |-> is_pointer]
INCOMPLETE == [k |-> "INCOMPLETE"]
PyNone == [k |-> "None"]
\* a bool or str kept in a context
PyBool(b) == [k |-> "bool", b |-> b]
PyStr(str) == [k |-> "str", s |-> str]
IsIncomplete(r) == r.k = "INCOMPLETE"

\* the exception of r.get_scalar() ("" when there is none), and its value
get_scalar_err(r) ==
    IF r.k # "ER" THEN "AttributeError"
    ELSE IF Len(r.values) # 1 THEN "AssertionError" ELSE ""
get_scalar(r) == r.values[1]

\* what evaluate() hands back: the machine it left, and its return value
Out(m, r) == [m |-> m, r |-> r]
Fail(m, e) == Out(Raise(m, e), PyNone)
\* the caller returns at once: an exception is propagating, or the
\* sub-expression is suspended
Stopped(o) == o.m.err # "" \/ IsIncomplete(o.r)

EmptyCtx == [step |-> 0, temp_results |-> EmptyMap]
\* ExecutionContext.store / advance / get
store(ctx, key, value) == [ctx EXCEPT !.temp_results = (key :> value) @@ @]
advance(ctx) == [ctx EXCEPT !.step = @ + 1]
ctx_get(ctx, key) ==
    IF key \in DOMAIN ctx.temp_results THEN ctx.temp_results[key] ELSE PyNone

\* ContextObjects.get_ctx: the context of node id in the current frame
\* (created on first access); the caller checks that a frame exists
get_ctx(m, id) ==
    LET c == m.call_stack[Len(m.call_stack)].contexts
    IN IF id \in DOMAIN c THEN c[id] ELSE EmptyCtx
put_ctx(m, id, ctx) ==
    [m EXCEPT !.call_stack[Len(m.call_stack)].contexts = (id :> ctx) @@ @]
NoFrame(m) == m.call_stack = <<>>

\* the context a MethodCall node keeps in self.ctx
get_node_ctx(m, id) ==
    IF id \in DOMAIN m.node_ctx THEN m.node_ctx[id] ELSE EmptyCtx
put_node_ctx(m, id, ctx) == [m EXCEPT !.node_ctx = (id :> ctx) @@ @]

\* f"arg_{i}" and f"elem_{i}"
ArgKey(i) == <<"arg_0", "arg_1", "arg_2", "arg_3">>[i + 1]
ElemKey(i) == <<"elem_0", "elem_1", "elem_2", "elem_3", "elem_4", "elem_5">>[i + 1]

(***************************************************************************)
(* Type tags.  The code tests type strings by prefix and with the regular  *)
(* expression \[.+;\s*(\d+)\]; a missing type (None) is "".                *)
(***************************************************************************)
ArrayTypes == ("[i32;2]" :> 2) @@ ("[i32;3]" :> 3) @@ ("[i32;4]" :> 4)
              @@ ("[i32; 2]" :> 2) @@ ("[i32; 4]" :> 4)
\* typ.startswith("[")
IsArrayTyp(typ) == typ \in DOMAIN ArrayTypes
\* int(re.match(r"\[.+;\s*(\d+)\]", typ).group(1))
ArrayTypLen(typ) == ArrayTypes[typ]
\* "Vec" in typ / typ.startswith("Vec")
IsVecTyp(typ) == typ \in {"Vec", "Vec<i32>"}
\* typ.startswith("&") or typ.startswith("*")
IsPtrTyp(typ) == typ \in {"&i32", "&Vec", "&[i32]", "*i32"}
\* f"&{var_name}", the type of a Reference's result
RefTyp(var_name) == (("x" :> "&x") @@ ("q" :> "&q") @@ ("p" :> "&p"))[var_name]

(***************************************************************************)
(* AST nodes.  id stands for id(self), the key of the node's context.      *)
(***************************************************************************)
Literal(value, typ) == [k |-> "Literal", value |-> value, typ |-> typ]
Num(n) == Literal(I(n), "i32")
Variable(name) == [k |-> "Variable", name |-> name]
BinaryOp(id, left, op, right) ==
    [k |-> "BinaryOp", id |-> id, left |-> left, op |-> op, right |-> right]
FunctionCall(id, func_name, args) ==
    [k |-> "FunctionCall", id |-> id, func_name |-> func_name, args |-> args]
ArrayLiteral(id, elements) == [k |-> "ArrayLiteral", id |-> id, elements |-> elements]
VecMacro(id, elements) == [k |-> "VecMacro", id |-> id, elements |-> elements]
BoxNew(id, value) == [k |-> "BoxNew", id |-> id, value |-> value]
MethodCall(id, obj, method, args) ==
    [k |-> "MethodCall", id |-> id, obj |-> obj, method |-> method, args |-> args]
Dereference(id, expr, levels) ==
    [k |-> "Dereference", id |-> id, expr |-> expr, levels |-> levels]
Reference(var_name) == [k |-> "Reference", var_name |-> var_name]
NoExpr == [k |-> "NoExpr"]

VariableLValue(name) == [k |-> "VariableLValue", name |-> name]
ArrayIndexLValue(array, index) ==
    [k |-> "ArrayIndexLValue", array |-> array, index |-> index]
DereferenceLValue(expr, levels) ==
    [k |-> "DereferenceLValue", expr |-> expr, levels |-> levels]

Nop == [k |-> "Nop"]
LetBinding(id, var_name, typ, expr) ==
    [k |-> "LetBinding", id |-> id, var_name |-> var_name, typ |-> typ, expr |-> expr]
Assignment(id, lvalue, expr) ==
    [k |-> "Assignment", id |-> id, lvalue |-> lvalue, expr |-> expr]
CompoundAssignment(id, lvalue, op, expr) ==
    [k |-> "CompoundAssignment", id |-> id, lvalue |-> lvalue, op |-> op, expr |-> expr]
ExpressionStatement(id, expr) == [k |-> "ExpressionStatement", id |-> id, expr |-> expr]
IfElseBlock(id, condition, then_body, else_body) ==
    [k |-> "IfElseBlock", id |-> id, condition |-> condition,
     then_body |-> then_body, else_body |-> else_body]
WhileLoop(id, condition, body) ==
    [k |-> "WhileLoop", id |-> id, condition |-> condition, body |-> body]
Return(id, expr) == [k |-> "Return", id |-> id, expr |-> expr]
Drop(var_name, is_vec) == [k |-> "Drop", var_name |-> var_name, is_vec |-> is_vec]

FunctionDef(params, body) == [params |-> params, body |-> body]
Param(name, typ) == [name |-> name, typ |-> typ]

(***************************************************************************)
(* The programs run.                                                       *)
(***************************************************************************)
MaxLen == 3
MaxIter == 3
MaxDividend == 7
MaxDivisor == 3
\* the stars of a dereference (*p, **p)
MaxLevels == 2
\* the step() calls a run is followed for
MaxSteps == 50

\* The statements a generated main body is made of; pos gives the node ids.
\* The parser gives `let v = vec![..]` the type "Vec", and makes drop(v) a
\* Vec drop when an earlier let in the function gave v a Vec type.
MenuItems(pos, v_is_vec) ==
    LET b == 10 * pos
    IN << \* let v = vec![1, 2, 3];
          LetBinding(b, "v", "Vec", VecMacro(b + 1, <<Num(1), Num(2), Num(3)>>)),
          \* let v = vec![];
          LetBinding(b, "v", "Vec", VecMacro(b + 1, <<>>)),
          \* let b = Box::new(5);
          LetBinding(b, "b", "", BoxNew(b + 1, Num(5))),
          \* v.push(4);
          ExpressionStatement(b, MethodCall(b + 1, Variable("v"), "push", <<Num(4)>>)),
          \* drop(v);
          Drop("v", v_is_vec),
          \* drop(b);
          Drop("b", FALSE),
          \* let x: i32 = <6 + pos>;
          LetBinding(b, "x", "i32", Num(6 + pos)),
          \* v = 0;
          Assignment(b, VariableLValue("v"), Num(0)) >>
MenuSize == Len(MenuItems(1, FALSE))
VecLets == {1, 2}

\* fn main() { <code[1]>; ...; <code[n]>; }
Generated(code) ==
    [main |-> FunctionDef(<<>>,
       [pos \in 1..Len(code) |->
          MenuItems(pos, \E q \in 1..(pos - 1) : code[q] \in VecLets)[code[pos]]])]

\* fn g(x: i32) -> i32 { return x + 1; }
\* fn f(x: i32) -> i32 { let y: i32 = g(x); return y; }
\* fn h() { let z: i32 = 1; }
\* fn main() { let a: i32 = f(1); h(); }
Nested ==
    [g |-> FunctionDef(<<Param("x", "i32")>>,
             <<Return(101, BinaryOp(102, Variable("x"), "+", Num(1)))>>),
     f |-> FunctionDef(<<Param("x", "i32")>>,
             <<LetBinding(111, "y", "i32", FunctionCall(112, "g", <<Variable("x")>>)),
               Return(113, Variable("y"))>>),
     h |-> FunctionDef(<<>>, <<LetBinding(121, "z", "i32", Num(1))>>),
     main |-> FunctionDef(<<>>,
             <<LetBinding(131, "a", "i32", FunctionCall(132, "f", <<Num(1)>>)),
               ExpressionStatement(133, FunctionCall(134, "h", <<>>))>>)]

\* fn r(n: i32) { r(n + 1); }
\* fn main() { r(0); }
Recurse ==
    [r |-> FunctionDef(<<Param("n", "i32")>>,
             <<ExpressionStatement(201,
                 FunctionCall(202, "r", <<BinaryOp(203, Variable("n"), "+", Num(1))>>))>>),
     main |-> FunctionDef(<<>>,
             <<ExpressionStatement(211, FunctionCall(212, "r", <<Num(0)>>))>>)]

\* fn main() { let i: i32 = 0; while i < MaxIter { let x: i32 = 7; i += 1; } }
Loop ==
    [main |-> FunctionDef(<<>>,
             <<LetBinding(301, "i", "i32", Num(0)),
               WhileLoop(302, BinaryOp(303, Variable("i"), "<", Num(MaxIter)),
                 <<LetBinding(304, "x", "i32", Num(7)),
                   CompoundAssignment(305, VariableLValue("i"), "+=", Num(1))>>)>>)]

\* fn main() { let a: i32 = 1; if a < 2 { let x: i32 = 1; } else { let y: i32 = 2; } }
Branch ==
    [main |-> FunctionDef(<<>>,
             <<LetBinding(401, "a", "i32", Num(1)),
               IfElseBlock(402, BinaryOp(403, Variable("a"), "<", Num(2)),
                 <<LetBinding(404, "x", "i32", Num(1))>>,
                 <<LetBinding(405, "y", "i32", Num(2))>>)>>)]

\* fn mk() -> [i32; 3] { return [1, 2, 3]; }
\* fn main() { let a = mk(); }
Unannotated ==
    [mk |-> FunctionDef(<<>>,
             <<Return(501, ArrayLiteral(502, <<Num(1), Num(2), Num(3)>>))>>),
     main |-> FunctionDef(<<>>,
             <<LetBinding(511, "a", "", FunctionCall(512, "mk", <<>>))>>)]

\* fn main() { let q: i32 = a / b; let mut r: i32 = a; r /= b; }
Divide(a, b) ==
    [main |-> FunctionDef(<<>>,
             <<LetBinding(601, "q", "i32", BinaryOp(602, Num(a), "/", Num(b))),
               LetBinding(603, "r", "i32", Num(a)),
               CompoundAssignment(604, VariableLValue("r"), "/=", Num(b))>>)]
Operands == {<<a, b>> : a \in (0 - MaxDividend) .. MaxDividend,
                        b \in (0 - MaxDivisor) .. MaxDivisor}

\* fn main() { let a = 1 + 1; let b = a * 2; return; }
ScenarioA ==
    [main |-> FunctionDef(<<>>,
             <<LetBinding(701, "a", "", BinaryOp(702, Num(1), "+", Num(1))),
               LetBinding(703, "b", "", BinaryOp(704, Variable("a"), "*", Num(2))),
               Return(705, NoExpr)>>)]

\* fn main() { let p1 = Box::new(42); let p2 = p1; drop(p2); drop(p1); }
DoubleFree ==
    [main |-> FunctionDef(<<>>,
             <<LetBinding(801, "p1", "", BoxNew(802, Num(42))),
               LetBinding(803, "p2", "", Variable("p1")),
               Drop("p2", FALSE),
               Drop("p1", FALSE)>>)]

\* EXAMPLE_PROGRAM14 of v2.py, without its println! statement:
\* fn main() { let n: i32 = 4; let f = fibonacci(n); return; }
\* fn fibonacci(n: i32) {
\*     let res: i32;
\*     if n == 1 { res = 1; } else {
\*         if n == 2 { res = 1; } else {
\*             n -= 1; let f1: i32 = fibonacci(n);
\*             n -= 1; let f2: i32 = fibonacci(n);
\*             res = f1 + f2; } }
\*     return res; }
Fibonacci ==
    [fibonacci |-> FunctionDef(<<Param("n", "i32")>>,
       <<LetBinding(911, "res", "i32", NoExpr),
         IfElseBlock(912, BinaryOp(913, Variable("n"), "==", Num(1)),
           <<Assignment(914, VariableLValue("res"), Num(1))>>,
           <<IfElseBlock(915, BinaryOp(916, Variable("n"), "==", Num(2)),
               <<Assignment(917, VariableLValue("res"), Num(1))>>,
               <<CompoundAssignment(918, VariableLValue("n"), "-=", Num(1)),
                 LetBinding(919, "f1", "i32",
                            FunctionCall(920, "fibonacci", <<Variable("n")>>)),
                 CompoundAssignment(921, VariableLValue("n"), "-=", Num(1)),
                 LetBinding(922, "f2", "i32",
                            FunctionCall(923, "fibonacci", <<Variable("n")>>)),
                 Assignment(924, VariableLValue("res"),
                            BinaryOp(925, Variable("f1"), "+", Variable("f2")))>>)>>),
         Return(926, Variable("res"))>>),
     main |-> FunctionDef(<<>>,
       <<LetBinding(901, "n", "i32", Num(4)),
         LetBinding(902, "f", "", FunctionCall(903, "fibonacci", <<Variable("n")>>)),
         Return(904, NoExpr)>>)]

\* One statement with the call g(1) at each place a call can stand:
\* fn g(x: i32) { return x + 1; }
\* fn r() { return g(1); }
\* fn main() { let mut a: i32 = 1; <the statement of the site> }
CallSiteItems ==
    << \* let b: i32 = g(1);
       LetBinding(1010, "b", "i32", FunctionCall(1011, "g", <<Num(1)>>)),
       \* a = g(1);
       Assignment(1020, VariableLValue("a"), FunctionCall(1021, "g", <<Num(1)>>)),
       \* g(1);
       ExpressionStatement(1030, FunctionCall(1031, "g", <<Num(1)>>)),
       \* let b: i32 = r();
       LetBinding(1040, "b", "i32", FunctionCall(1041, "r", <<>>)),
       \* a += g(1);
       CompoundAssignment(1050, VariableLValue("a"), "+=",
                          FunctionCall(1051, "g", <<Num(1)>>)),
       \* let b: i32 = a + g(1);
       LetBinding(1060, "b", "i32",
                  BinaryOp(1061, Variable("a"), "+", FunctionCall(1062, "g", <<Num(1)>>))),
       \* let b: i32 = g(g(1));
       LetBinding(1070, "b", "i32",
                  FunctionCall(1071, "g", <<FunctionCall(1072, "g", <<Num(1)>>)>>)),
       \* if g(1) == 2 { a = 5; } else { a = 6; }
       IfElseBlock(1080, BinaryOp(1081, FunctionCall(1082, "g", <<Num(1)>>), "==", Num(2)),
                   <<Assignment(1083, VariableLValue("a"), Num(5))>>,
                   <<Assignment(1084, VariableLValue("a"), Num(6))>>),
       \* while g(1) < 2 { a = 5; }
       WhileLoop(1090, BinaryOp(1091, FunctionCall(1092, "g", <<Num(1)>>), "<", Num(2)),
                 <<Assignment(1093, VariableLValue("a"), Num(5))>>) >>
CallSites == 1 .. Len(CallSiteItems)
CallSite(i) ==
    [g |-> FunctionDef(<<Param("x", "i32")>>,
             <<Return(1001, BinaryOp(1002, Variable("x"), "+", Num(1)))>>),
     r |-> FunctionDef(<<>>, <<Return(1003, FunctionCall(1004, "g", <<Num(1)>>))>>),
     main |-> FunctionDef(<<>>,
             <<LetBinding(1005, "a", "i32", Num(1)), CallSiteItems[i]>>)]

\* fn add(n: i32) { v.push(n); }
\* fn main() { let mut v = vec![]; add(5); add(6); }
PushTwice ==
    [add |-> FunctionDef(<<Param("n", "i32")>>,
             <<ExpressionStatement(1101,
                 MethodCall(1102, Variable("v"), "push", <<Variable("n")>>))>>),
     main |-> FunctionDef(<<>>,
             <<LetBinding(1111, "v", "Vec", VecMacro(1112, <<>>)),
               ExpressionStatement(1113, FunctionCall(1114, "add", <<Num(5)>>)),
               ExpressionStatement(1115, FunctionCall(1116, "add", <<Num(6)>>))>>)]

\* the ways main obtains the pointer p, after `let x: i32 = 5;`
PointerSetups ==
    <<  \* let p: i32 = -1;
        <<LetBinding(1201, "p", "i32", Num(0 - 1))>>,
        \* let p: i32 = 26;
        <<LetBinding(1202, "p", "i32", Num(MEM_SIZE))>>,
        \* let p = Box::new(42); drop(p);
        <<LetBinding(1203, "p", "", BoxNew(1204, Num(42))), Drop("p", FALSE)>>,
        \* let p = Box::new(42); let p2 = p; drop(p2);
        <<LetBinding(1205, "p", "", BoxNew(1206, Num(42))),
          LetBinding(1207, "p2", "", Variable("p")), Drop("p2", FALSE)>>,
        \* let p = &x;
        <<LetBinding(1208, "p", "", Reference("x"))>>,
        \* let q = &x; let p = &q;
        <<LetBinding(1209, "q", "", Reference("x")),
          LetBinding(1210, "p", "", Reference("q"))>>,
        \* let q: i32 = -1; let p = &q;
        <<LetBinding(1211, "q", "i32", Num(0 - 1)),
          LetBinding(1212, "p", "", Reference("q"))>>  >>

\* the accesses through p, with the given number of stars:
\* let y = *p;   *p = 7;   *p += 7;
PointerAccesses(levels) ==
    <<LetBinding(1221, "y", "", Dereference(1222, Variable("p"), levels)),
      Assignment(1223, DereferenceLValue(Variable("p"), levels), Num(7)),
      CompoundAssignment(1224, DereferenceLValue(Variable("p"), levels), "+=", Num(7))>>

\* fn main() { let x: i32 = 5; <setup> <access> }
Pointer(setup, access, levels) ==
    [main |-> FunctionDef(<<>>,
             <<LetBinding(1200, "x", "i32", Num(5))>>
             \o PointerSetups[setup] \o <<PointerAccesses(levels)[access]>>)]

PointerCodes ==
    {<<su, ac, lv>> : su \in 1 .. Len(PointerSetups), ac \in 1 .. 3, lv \in 1 .. MaxLevels}

\* fn z() { return 0; }
\* fn main() { let a: i32 = 7; a = z(); let b: i32 = z(); }
ReturnZero ==
    [z |-> FunctionDef(<<>>, <<Return(1301, Num(0))>>),
     main |-> FunctionDef(<<>>,
             <<LetBinding(1302, "a", "i32", Num(7)),
               Assignment(1303, VariableLValue("a"), FunctionCall(1304, "z", <<>>)),
               LetBinding(1305, "b", "i32", FunctionCall(1306, "z", <<>>))>>)]

\* fn f(n: i32) { while n < 5 { if n == 2 { return n; } n += 1; } return 9; }
\* fn main() { let a: i32 = 1; if a == 1 { let b: i32 = f(0); a = b + 1; }
\*             let c: i32 = f(7); }
EarlyReturn ==
    [f |-> FunctionDef(<<Param("n", "i32")>>,
             <<WhileLoop(1311, BinaryOp(1312, Variable("n"), "<", Num(5)),
                 <<IfElseBlock(1313, BinaryOp(1314, Variable("n"), "==", Num(2)),
                               <<Return(1315, Variable("n"))>>, <<>>),
                   CompoundAssignment(1316, VariableLValue("n"), "+=", Num(1))>>),
               Return(1317, Num(9))>>),
     main |-> FunctionDef(<<>>,
             <<LetBinding(1321, "a", "i32", Num(1)),
               IfElseBlock(1322, BinaryOp(1323, Variable("a"), "==", Num(1)),
                 <<LetBinding(1324, "b", "i32", FunctionCall(1325, "f", <<Num(0)>>)),
                   Assignment(1326, VariableLValue("a"),
                              BinaryOp(1327, Variable("b"), "+", Num(1)))>>,
                 <<>>),
               LetBinding(1328, "c", "i32", FunctionCall(1329, "f", <<Num(7)>>))>>)]

\* fn h() { let z: i32 = 1; }
\* fn k() { let z: i32 = 1; return; }
\* fn main() { h(); k(); }
VoidReturn ==
    [h |-> FunctionDef(<<>>, <<LetBinding(1331, "z", "i32", Num(1))>>),
     k |-> FunctionDef(<<>>, <<LetBinding(1332, "z", "i32", Num(1)),
                               Return(1333, NoExpr)>>),
     main |-> FunctionDef(<<>>,
             <<ExpressionStatement(1334, FunctionCall(1335, "h", <<>>)),
               ExpressionStatement(1336, FunctionCall(1337, "k", <<>>))>>)]

\* EXAMPLE_PROGRAM9 of v2.py:
\* fn main() { let a: i32 = 5; while a != 3 { a-=1; } return; }
Example9 ==
    [main |-> FunctionDef(<<>>,
             <<LetBinding(1341, "a", "i32", Num(5)),
               WhileLoop(1342, BinaryOp(1343, Variable("a"), "!=", Num(3)),
                 <<CompoundAssignment(1344, VariableLValue("a"), "-=", Num(1))>>),
               Return(1345, NoExpr)>>)]

\* fn main() { let a: i32 = 5; let n: i32 = 0;
\*             while a != 3 { a -= 1; if a == 4 { n += 1; } else { n += 2; } }
\*             if a == 4 { n = 0; }
\*             let d: i32 = n; }
IfInLoop ==
    [main |-> FunctionDef(<<>>,
             <<LetBinding(1351, "a", "i32", Num(5)),
               LetBinding(1352, "n", "i32", Num(0)),
               WhileLoop(1353, BinaryOp(1354, Variable("a"), "!=", Num(3)),
                 <<CompoundAssignment(1355, VariableLValue("a"), "-=", Num(1)),
                   IfElseBlock(1356, BinaryOp(1357, Variable("a"), "==", Num(4)),
                     <<CompoundAssignment(1358, VariableLValue("n"), "+=", Num(1))>>,
                     <<CompoundAssignment(1359, VariableLValue("n"), "+=", Num(2))>>)>>),
               IfElseBlock(1360, BinaryOp(1361, Variable("a"), "==", Num(4)),
                 <<Assignment(1362, VariableLValue("n"), Num(0))>>, <<>>),
               LetBinding(1363, "d", "i32", Variable("n"))>>)]

\* fn main() { let a: i32 = 0;
\*             while a < 2 { a += 1; if a == 1 { if a == 2 { a = 9; } } } }
NestedIf ==
    [main |-> FunctionDef(<<>>,
             <<LetBinding(1371, "a", "i32", Num(0)),
               WhileLoop(1372, BinaryOp(1373, Variable("a"), "<", Num(2)),
                 <<CompoundAssignment(1374, VariableLValue("a"), "+=", Num(1)),
                   IfElseBlock(1375, BinaryOp(1376, Variable("a"), "==", Num(1)),
                     <<IfElseBlock(1377, BinaryOp(1378, Variable("a"), "==", Num(2)),
                         <<Assignment(1379, VariableLValue("a"), Num(9))>>, <<>>)>>,
                     <<>>)>>)>>)]

\* fn main() { let a: i32 = 5; while a + 1 != 4 { a -= 1; } }
NestedCondition ==
    [main |-> FunctionDef(<<>>,
             <<LetBinding(1381, "a", "i32", Num(5)),
               WhileLoop(1382, BinaryOp(1383, BinaryOp(1384, Variable("a"), "+", Num(1)),
                                        "!=", Num(4)),
                 <<CompoundAssignment(1385, VariableLValue("a"), "-=", Num(1))>>)>>)]

\* fn main() { let v = vec![]; let i: i32 = 0; while i < 2 { v.push(i); i += 1; } }
LoopPush ==
    [main |-> FunctionDef(<<>>,
             <<LetBinding(1391, "v", "Vec", VecMacro(1392, <<>>)),
               LetBinding(1393, "i", "i32", Num(0)),
               WhileLoop(1394, BinaryOp(1395, Variable("i"), "<", Num(2)),
                 <<ExpressionStatement(1396,
                     MethodCall(1397, Variable("v"), "push", <<Variable("i")>>)),
                   CompoundAssignment(1398, VariableLValue("i"), "+=", Num(1))>>)>>)]

\* fn g(x: i32) { return x + 1; }
\* fn main() { let i: i32 = 0; while i < 2 { let x: i32 = g(i); i = x; } }
LoopCall ==
    [g |-> FunctionDef(<<Param("x", "i32")>>,
             <<Return(1401, BinaryOp(1402, Variable("x"), "+", Num(1)))>>),
     main |-> FunctionDef(<<>>,
             <<LetBinding(1403, "i", "i32", Num(0)),
               WhileLoop(1404, BinaryOp(1405, Variable("i"), "<", Num(2)),
                 <<LetBinding(1406, "x", "i32", FunctionCall(1407, "g", <<Variable("i")>>)),
                   Assignment(1408, VariableLValue("i"), Variable("x"))>>)>>)]

\* fn main() { let a: i32 = 1; if a == 1 { return; } let b: i32 = 2; }
ReturnInBlock ==
    [main |-> FunctionDef(<<>>,
             <<LetBinding(1411, "a", "i32", Num(1)),
               IfElseBlock(1412, BinaryOp(1413, Variable("a"), "==", Num(1)),
                 <<Return(1414, NoExpr)>>, <<>>),
               LetBinding(1415, "b", "i32", Num(2))>>)]

\* v2.py EXAMPLE_PROGRAM4:
\* fn main() { let a: [i32; 2] = [1, 2]; a[0] = 99; helper(a); return; }
\* fn helper(arr: [i32;2]) { arr[1] = 99; return; }
Example4 ==
    [main |-> FunctionDef(<<>>,
             <<LetBinding(1501, "a", "[i32; 2]", ArrayLiteral(1502, <<Num(1), Num(2)>>)),
               Assignment(1503, ArrayIndexLValue(Variable("a"), Num(0)), Num(99)),
               ExpressionStatement(1504, FunctionCall(1505, "helper", <<Variable("a")>>)),
               Return(1506, NoExpr)>>),
     helper |-> FunctionDef(<<Param("arr", "[i32;2]")>>,
             <<Assignment(1511, ArrayIndexLValue(Variable("arr"), Num(1)), Num(99)),
               Return(1512, NoExpr)>>)]

\* fn main() { let a: i32 = 1; set(a); return; }
\* fn set(n: i32) { n = 9; return; }
ByValue ==
    [main |-> FunctionDef(<<>>,
             <<LetBinding(1521, "a", "i32", Num(1)),
               ExpressionStatement(1522, FunctionCall(1523, "set", <<Variable("a")>>)),
               Return(1524, NoExpr)>>),
     set |-> FunctionDef(<<Param("n", "i32")>>,
             <<Assignment(1531, VariableLValue("n"), Num(9)),
               Return(1532, NoExpr)>>)]

\* v2.py EXAMPLE_PROGRAM5:
\* fn main() { let a: [i32;2] = helper(); }
\* fn helper() { let arr: [i32;2] = [1, 2]; return arr; }
Example5 ==
    [main |-> FunctionDef(<<>>,
             <<LetBinding(1541, "a", "[i32;2]", FunctionCall(1542, "helper", <<>>))>>),
     helper |-> FunctionDef(<<>>,
             <<LetBinding(1551, "arr", "[i32;2]", ArrayLiteral(1552, <<Num(1), Num(2)>>)),
               Return(1553, Variable("arr"))>>)]

\* v2.py EXAMPLE_PROGRAM6:
\* fn main() { let v = vec![0, 1]; helper(v); return; }
\* fn helper(v: Vec) { v.push(3); return; }
Example6 ==
    [main |-> FunctionDef(<<>>,
             <<LetBinding(1561, "v", "Vec", VecMacro(1562, <<Num(0), Num(1)>>)),
               ExpressionStatement(1563, FunctionCall(1564, "helper", <<Variable("v")>>)),
               Return(1565, NoExpr)>>),
     helper |-> FunctionDef(<<Param("v", "Vec")>>,
             <<ExpressionStatement(1571,
                 MethodCall(1572, Variable("v"), "push", <<Num(3)>>)),
               Return(1573, NoExpr)>>)]

\* v2.py EXAMPLE_PROGRAM12:
\* fn main() { let bank: i32 = 25000; tampering(); return; }
\* fn tampering() { let x: i32 = 42; let arr: [i32; 4] = [1, 2, 3, 4];
\*                  arr[5] = -99; return; }
Example12 ==
    [main |-> FunctionDef(<<>>,
             <<LetBinding(1581, "bank", "i32", Num(25000)),
               ExpressionStatement(1582, FunctionCall(1583, "tampering", <<>>)),
               Return(1584, NoExpr)>>),
     tampering |-> FunctionDef(<<>>,
             <<LetBinding(1591, "x", "i32", Num(42)),
               LetBinding(1592, "arr", "[i32; 4]",
                          ArrayLiteral(1593, <<Num(1), Num(2), Num(3), Num(4)>>)),
               Assignment(1594, ArrayIndexLValue(Variable("arr"), Num(5)), Num(0 - 99)),
               Return(1595, NoExpr)>>)]

\* fn mk() { let v = vec![1, 2]; return v; }
\* fn main() { let w = mk(); return; }
VecReturn ==
    [mk |-> FunctionDef(<<>>,
             <<LetBinding(1601, "v", "Vec", VecMacro(1602, <<Num(1), Num(2)>>)),
               Return(1603, Variable("v"))>>),
     main |-> FunctionDef(<<>>,
             <<LetBinding(1611, "w", "", FunctionCall(1612, "mk", <<>>)),
               Return(1613, NoExpr)>>)]

\* fn main() { let v = vec![1]; let w = v; return; }
VecAlias ==
    [main |-> FunctionDef(<<>>,
             <<LetBinding(1621, "v", "Vec", VecMacro(1622, <<Num(1)>>)),
               LetBinding(1623, "w", "", Variable("v")),
               Return(1624, NoExpr)>>)]

\* fn mk() { let b = Box::new(5); let v = vec![1]; return; }
\* fn main() { let x: i32 = 7; mk(); return; }
Leak ==
    [mk |-> FunctionDef(<<>>,
             <<LetBinding(1631, "b", "", BoxNew(1632, Num(5))),
               LetBinding(1633, "v", "Vec", VecMacro(1634, <<Num(1)>>)),
               Return(1635, NoExpr)>>),
     main |-> FunctionDef(<<>>,
             <<LetBinding(1641, "x", "i32", Num(7)),
               ExpressionStatement(1642, FunctionCall(1643, "mk", <<>>)),
               Return(1644, NoExpr)>>)]

\* fn main() { let b = Box::new(5); poke(); return; }
\* fn poke() { let arr: [i32;2] = [1, 2]; arr[2] = 7; return; }
Poke ==
    [main |-> FunctionDef(<<>>,
             <<LetBinding(1651, "b", "", BoxNew(1652, Num(5))),
               ExpressionStatement(1653, FunctionCall(1654, "poke", <<>>)),
               Return(1655, NoExpr)>>),
     poke |-> FunctionDef(<<>>,
             <<LetBinding(1661, "arr", "[i32;2]", ArrayLiteral(1662, <<Num(1), Num(2)>>)),
               Assignment(1663, ArrayIndexLValue(Variable("arr"), Num(2)), Num(7)),
               Return(1664, NoExpr)>>)]

Examples == [nested |-> Nested, recurse |-> Recurse, loop |-> Loop,
             branch |-> Branch, unannotated |-> Unannotated,
             scenario_a |-> ScenarioA, double_free |-> DoubleFree,
             fibonacci |-> Fibonacci, push_twice |-> PushTwice,
             return_zero |-> ReturnZero, early_return |-> EarlyReturn,
             void_return |-> VoidReturn, example9 |-> Example9,
             if_in_loop |-> IfInLoop, nested_if |-> NestedIf,
             nested_condition |-> NestedCondition, loop_push |-> LoopPush,
             loop_call |-> LoopCall, return_in_block |-> ReturnInBlock,
             example4 |-> Example4, by_value |-> ByValue, example5 |-> Example5,
             example6 |-> Example6, example12 |-> Example12,
             vec_return |-> VecReturn, vec_alias |-> VecAlias, leak |-> Leak,
             poke |-> Poke]

(***************************************************************************)
(* compiler/parser.py: expressions.  A text is a sequence of characters    *)
(* (one-character strings); off is the index in the statement of the       *)
(* character before the text, from which the node ids are made.            *)
(***************************************************************************)
\* the operands of the arithmetic texts parsed
MaxOperand == 2

DigitChars == <<"0", "1", "2", "3", "4", "5", "6", "7", "8", "9">>
IsDigit(c) == \E d \in 1 .. 10 : DigitChars[d] = c
DigitOf(c) == (CHOOSE d \in 1 .. 10 : DigitChars[d] = c) - 1
\* int(text) for a text of digits, and the text str(n) of an integer
RECURSIVE IntOf(_)
IntOf(text) ==
    IF text = <<>> THEN 0
    ELSE 10 * IntOf(SubSeq(text, 1, Len(text) - 1)) + DigitOf(text[Len(text)])
RECURSIVE StrOf(_)
StrOf(n) ==
    IF n < 0 THEN <<"-">> \o StrOf(0 - n)
    ELSE IF n < 10 THEN <<DigitChars[n + 1]>>
    ELSE StrOf(n \div 10) \o <<DigitChars[(n % 10) + 1]>>

\* text.strip(): the number of blanks in front, and the text without the
\* blanks at both ends
RECURSIVE LeadingBlanks(_)
LeadingBlanks(text) ==
    IF text # <<>> /\ Head(text) = " " THEN 1 + LeadingBlanks(Tail(text)) ELSE 0
RECURSIVE Strip(_)
Strip(text) ==
    IF text = <<>> THEN text
    ELSE IF Head(text) = " " THEN Strip(Tail(text))
    ELSE IF text[Len(text)] = " " THEN Strip(SubSeq(text, 1, Len(text) - 1))
    ELSE text

\* `op in text` / text.split(op, 1): the index of the first occurrence of the
\* character sequence op in text, 0 if there is none
FindFirst(text, op) ==
    LET hits == {i \in 1 .. (Len(text) - Len(op) + 1) : SubSeq(text, i, i + Len(op) - 1) = op}
    IN IF hits = {} THEN 0 ELSE CHOOSE i \in hits : \A j \in hits : i <= j

\* _parse_expression, lines 447-460: the text is one parenthesised group
Count(text, lo, hi, chars) == Cardinality({i \in lo .. hi : text[i] \in chars})
Enclosed(text) ==
    /\ Len(text) >= 2 /\ text[1] = "(" /\ text[Len(text)] = ")"
    /\ \A i \in 1 .. (Len(text) - 1) :
          Count(text, 1, i, {"("}) # Count(text, 1, i, {")"})
    /\ Count(text, 1, Len(text), {"("}) = Count(text, 1, Len(text), {")"})

\* the scan of lines 480-505 (and 506-529): the positions i > 0 of the
\* character op outside brackets whose nearest non-blank character to the
\* left exists and is none of + - * / = ! < > , (
InfixAt(text, op, i) ==
    /\ text[i] = op /\ i > 1
    /\ Count(text, i + 1, Len(text), {")", "]"}) = Count(text, i + 1, Len(text), {"(", "["})
    /\ \E p \in 1 .. (i - 1) :
          /\ text[p] # " "
          /\ \A q \in (p + 1) .. (i - 1) : text[q] = " "
          /\ text[p] \notin {"+", "-", "*", "/", "=", "!", "<", ">", ",", "("}
\* the reversed scan returns at the first hit: the rightmost position
SplitAt(text, op) ==
    LET hits == {i \in 1 .. Len(text) : InfixAt(text, op, i)}
    IN IF hits = {} THEN 0 ELSE CHOOSE i \in hits : \A j \in hits : i >= j

\* the node id of the expression built for the operator at index i of a text
\* that begins at offset off
ParsedId(off, i) == 1700 + off + i
\* a text _parse_primary hands to a rule that is not followed here
Unparsed(text) == [k |-> "Unparsed", text |-> text]

\* _parse_primary: negative and plain integer literals, a parenthesised
\* group; `true`, `false`, !, [..], vec![..], Box::new, &, method and
\* function calls, * and indexing are not followed
RECURSIVE parse_expression(_, _)
parse_primary(text0, off0) ==
    The({ IF Len(text) > 1 /\ text[1] = "-" /\ IsDigit(text[2])
             /\ \A i \in 2 .. Len(text) : IsDigit(text[i])
          THEN Num(0 - IntOf(Tail(text)))
          ELSE IF Len(text) >= 2 /\ text[1] = "(" /\ text[Len(text)] = ")"
          THEN parse_expression(SubSeq(text, 2, Len(text) - 1), off + 1)
          ELSE IF text # <<>> /\ \A i \in 1 .. Len(text) : IsDigit(text[i])
          THEN Num(IntOf(text))
          ELSE Unparsed(text)
          : text \in {Strip(text0)}, off \in {off0 + LeadingBlanks(text0)} })

\* the operators _parse_expression tries, in its order: each list is gone
\* through from its first operator, and the first operator that yields a
\* split decides
LogicalOps == << <<"|", "|">>, <<"&", "&">> >>
ComparisonOps == << <<"<", "=">>, <<">", "=">>, <<"=", "=">>, <<"!", "=">>, <<"<">>, <<">">> >>
AdditiveOps == <<"+", "-">>
MultiplicativeOps == <<"*", "/">>
\* the first operator of ops that occurs in text (0 if none)
FirstFound(text, ops) ==
    LET found == {n \in 1 .. Len(ops) : FindFirst(text, ops[n]) # 0}
    IN IF found = {} THEN 0 ELSE CHOOSE n \in found : \A o \in found : n <= o
\* the first operator of ops the scan finds an infix position for
FirstInfix(text, ops) ==
    LET found == {n \in 1 .. Len(ops) : SplitAt(text, ops[n]) # 0}
    IN IF found = {} THEN 0 ELSE CHOOSE n \in found : \A o \in found : n <= o
\* an operator of one or two characters as the string BinaryOp holds
OpName(op) ==
    CASE op = <<"|", "|">> -> "||" [] op = <<"&", "&">> -> "&&"
      [] op = <<"<", "=">> -> "<=" [] op = <<">", "=">> -> ">="
      [] op = <<"=", "=">> -> "==" [] op = <<"!", "=">> -> "!="
      [] OTHER -> op[1]

\* _parse_expression, the split `text[:i]`, op, `text[i + n:]` at index i
\* (counted from 1) for an operator of n characters
split(text, off, i, n, name) ==
    BinaryOp(ParsedId(off, i),
             parse_expression(SubSeq(text, 1, i - 1), off),
             name,
             parse_expression(SubSeq(text, i + n, Len(text)), off + i + n - 1))

\* Parser._parse_expression
parse_expression(text0, off0) ==
    The({
    The({ IF Enclosed(text) THEN parse_expression(SubSeq(text, 2, Len(text) - 1), off + 1)
          ELSE IF lg # 0
          THEN The({ split(text, off, i, 2, OpName(LogicalOps[lg]))
                     : i \in {FindFirst(text, LogicalOps[lg])} })
          ELSE IF cmp # 0
          THEN The({ split(text, off, i, Len(ComparisonOps[cmp]), OpName(ComparisonOps[cmp]))
                     : i \in {FindFirst(text, ComparisonOps[cmp])} })
          ELSE IF add # 0
          THEN The({ split(text, off, i, 1, AdditiveOps[add])
                     : i \in {SplitAt(text, AdditiveOps[add])} })
          ELSE IF mul # 0
          THEN The({ split(text, off, i, 1, MultiplicativeOps[mul])
                     : i \in {SplitAt(text, MultiplicativeOps[mul])} })
          ELSE parse_primary(text, off)
          : lg \in {FirstFound(text, LogicalOps)},
            cmp \in {FirstFound(text, ComparisonOps)},
            add \in {FirstInfix(text, AdditiveOps)},
            mul \in {FirstInfix(text, MultiplicativeOps)} })
    : text \in {Strip(text0)}, off \in {off0 + LeadingBlanks(text0)} })

\* the arithmetic operators, by number, and the text `a op1 b op2 c`
ArithOps == <<"+", "-", "*", "/">>
ArithText(code) ==
    StrOf(code[1]) \o <<" ", ArithOps[code[2]], " ">> \o StrOf(code[3])
    \o <<" ", ArithOps[code[4]], " ">> \o StrOf(code[5])
\* fn main() { let q: i32 = a op1 b op2 c; }
Arith(code) ==
    [main |-> FunctionDef(<<>>,
             <<LetBinding(1699, "q", "i32", parse_expression(ArithText(code), 0))>>)]
\* two operators of the same precedence between three operands
ArithPairs == ((1 .. 2) \X (1 .. 2)) \cup ((3 .. 4) \X (3 .. 4))
ArithCodes ==
    {<<a, o[1], b, o[2], c>> : a \in (0 - MaxOperand) .. MaxOperand,
                               b \in (0 - MaxOperand) .. MaxOperand,
                               c \in (0 - MaxOperand) .. MaxOperand,
                               o \in ArithPairs}

RECURSIVE Codes(_)
Codes(n) ==
    IF n = 0 THEN {<<>>}
    ELSE LET shorter == Codes(n - 1)
         IN shorter \cup {Append(c, i) : c \in {d \in shorter : Len(d) = n - 1},
                                         i \in 1..MenuSize}

Programs ==
    {[name |-> n, code |-> <<>>] : n \in DOMAIN Examples}
    \cup {[name |-> "generated", code |-> c] : c \in Codes(MaxLen)}
    \cup {[name |-> "divide", code |-> c] : c \in Operands}
    \cup {[name |-> "call_site", code |-> <<i>>] : i \in CallSites}
    \cup {[name |-> "pointer", code |-> c] : c \in PointerCodes}
    \cup {[name |-> "arith", code |-> c] : c \in ArithCodes}

\* Program.functions of program p
Functions(p) ==
    CASE p.name = "generated" -> Generated(p.code)
      [] p.name = "divide" -> Divide(p.code[1], p.code[2])
      [] p.name = "call_site" -> CallSite(p.code[1])
      [] p.name = "pointer" -> Pointer(p.code[1], p.code[2], p.code[3])
      [] p.name = "arith" -> Arith(p.code)
      [] OTHER -> Examples[p.name]

(***************************************************************************)
(* expressions.py                                                          *)
(***************************************************************************)
\* mem.mem[a] for an int a, once InRange(a) is known
Cell(m, a) == m.mem[PyIdx(a)]
\* the exception of evaluating mem.mem[v + lo] .. mem.mem[v + hi] ("" if none)
IndexErr(v, lo, hi) ==
    IF ~IsInt(v) THEN "TypeError"
    ELSE IF ~InRange(v.v + lo) \/ ~InRange(v.v + hi) THEN "IndexError" ELSE ""

\* Variable.evaluate
Variable_evaluate(e, m) ==
    The({
    The({
    LET is_vec == ~a1.ok
        addr == IF a1.ok THEN a1.addr ELSE a2.addr
    IN IF ~a1.ok /\ ~a2.ok THEN Fail(m, "KeyError")
       ELSE IF ~InRange(addr) THEN Fail(m, "IndexError")
       ELSE LET cell == Cell(m, addr)
            IN IF cell.typ = "array"
               THEN Out(m, ER(<<I(addr)>>, cell.typ, FALSE))
               ELSE IF cell.label = NoneLabel THEN Fail(m, "TypeError")
               ELSE IF HasBracket(cell.label)
               THEN Out(m, ER(<<I(addr)>>, cell.typ, FALSE))
               ELSE IF is_vec
               THEN Out(m, ER(<<I(addr)>>, "Vec", FALSE))
               ELSE Out(m, ER(<<cell.value>>, cell.typ, cell.is_pointer))
    : a2 \in {get_addr(m, Fld(e.name, "cap"))} })
    : a1 \in {get_addr(m, Lbl(e.name))} })

\* Python's // on ints (floor division), for b # 0
\* division truncating toward zero
FloorDiv_truncates(a, b) ==
    LET abs(x) == IF x < 0 THEN 0 - x ELSE x
        q == abs(a) \div abs(b)
    IN IF (a < 0) = (b < 0) THEN q ELSE 0 - q
\* Python's a // b on ints, b # 0
FloorDiv(a, b) == IF b > 0 THEN a \div b ELSE (0 - a) \div (0 - b)

\* BinaryOp.evaluate, step 2: [err, v]
BinaryOp_apply(op, l, r) ==
    LET ints == IsInt(l) /\ IsInt(r)
        ok(v) == [err |-> "", v |-> I(v)]
        bad(x) == [err |-> x, v |-> None]
    IN CASE op = "+" -> IF ints THEN ok(l.v + r.v) ELSE bad("TypeError")
         [] op = "-" -> IF ints THEN ok(l.v - r.v) ELSE bad("TypeError")
         [] op = "*" -> IF ints THEN ok(l.v * r.v) ELSE bad("TypeError")
         [] op = "/" -> IF ~ints THEN bad("TypeError")
                        ELSE IF r.v = 0 THEN bad("ZeroDivisionError")
                        ELSE ok(FloorDiv(l.v, r.v))
         [] op = "==" -> ok(IF l = r THEN 1 ELSE 0)
         [] op = "!=" -> ok(IF l # r THEN 1 ELSE 0)
         [] op = "<" -> IF ints THEN ok(IF l.v < r.v THEN 1 ELSE 0) ELSE bad("TypeError")
         [] op = ">" -> IF ints THEN ok(IF l.v > r.v THEN 1 ELSE 0) ELSE bad("TypeError")
         [] OTHER -> bad("ValueError")

RECURSIVE evaluate(_, _)

\* a phase that is run again although ctx.step is past it
Phase_repeats(m, id, at, key, sub) ==
    IF get_ctx(m, id).step < at
    THEN [m |-> m, r |-> PyNone, stop |-> FALSE]
    ELSE The({ IF Stopped(o)
               THEN [m |-> o.m, r |-> o.r, stop |-> TRUE]
               ELSE [m |-> put_ctx(o.m, id, advance(store(get_ctx(o.m, id), key, o.r))),
                     r |-> o.r, stop |-> FALSE]
               : o \in {evaluate(sub, m)} })

\* The idiom of every multi-phase node:
\*     if ctx.step == at:
\*         r = sub.evaluate(mem, prog)
\*         if r == ExecutionStatus.INCOMPLETE: return ExecutionStatus.INCOMPLETE
\*         ctx.store(key, r); ctx.advance()
\* stop: the node returns o.r at once (or the exception propagates)
Phase(m, id, at, key, sub) ==
    IF get_ctx(m, id).step # at
    THEN [m |-> m, r |-> PyNone, stop |-> FALSE]
    ELSE The({ IF Stopped(o)
               THEN [m |-> o.m, r |-> o.r, stop |-> TRUE]
               ELSE [m |-> put_ctx(o.m, id, advance(store(get_ctx(o.m, id), key, o.r))),
                     r |-> o.r, stop |-> FALSE]
               : o \in {evaluate(sub, m)} })

\* BinaryOp.evaluate
BinaryOp_evaluate(e, m) ==
    IF NoFrame(m) THEN Fail(m, "RuntimeError") ELSE
    The({ IF p0.stop THEN Out(p0.m, p0.r) ELSE
    The({ IF p1.stop THEN Out(p1.m, p1.r) ELSE
    The({
    The({
        IF get_scalar_err(left_result) # "" THEN Fail(p1.m, get_scalar_err(left_result))
        ELSE IF get_scalar_err(right_result) # ""
        THEN Fail(p1.m, get_scalar_err(right_result))
        ELSE The({ IF res.err # "" THEN Fail(p1.m, res.err)
                   ELSE Out(p1.m, ER(<<res.v>>, "i32", FALSE))
                   : res \in {BinaryOp_apply(e.op, get_scalar(left_result),
                                             get_scalar(right_result))} })
    : right_result \in {ctx_get(get_ctx(p1.m, e.id), "right_result")} })
    : left_result \in {ctx_get(get_ctx(p1.m, e.id), "left_result")} })
    : p1 \in {Phase(p0.m, e.id, 1, "right_result", e.right)} })
    : p0 \in {Phase(m, e.id, 0, "left_result", e.left)} })

\* an array argument whose elements are copied in reverse order
FunctionCall_convert_reversed(m, arg_result, param_type) ==
    IF IsArrayTyp(param_type) /\ get_scalar_err(arg_result) = ""
       /\ IndexErr(get_scalar(arg_result), 0, ArrayTypLen(param_type) - 1) = ""
    THEN [err |-> "",
          r |-> ER([o \in 1 .. ArrayTypLen(param_type) |->
                      Cell(m, get_scalar(arg_result).v + ArrayTypLen(param_type) - o).value],
                   param_type, FALSE)]
    ELSE [err |-> "", r |-> arg_result]

\* FunctionCall.evaluate, lines 190-222: an argument for a Vec or [T; N]
\* parameter is replaced by the values read from memory.  [err, r]
FunctionCall_convert(m, arg_result, param_type) ==
    LET vec == IsVecTyp(param_type)
        e1 == IF ~vec THEN ""
              ELSE IF get_scalar_err(arg_result) # "" THEN get_scalar_err(arg_result)
              ELSE IndexErr(get_scalar(arg_result), 0, 2)
        r1 == IF vec /\ e1 = ""
              THEN LET b == get_scalar(arg_result).v
                   IN ER([o \in 1 .. 3 |-> Cell(m, b + o - 1).value], "Vec", FALSE)
              ELSE arg_result
        arr == IsArrayTyp(param_type)
        size == IF arr THEN ArrayTypLen(param_type) ELSE 0
        e2 == IF ~arr \/ e1 # "" THEN e1
              ELSE IF get_scalar_err(r1) # "" THEN get_scalar_err(r1)
              ELSE IF size = 0 THEN ""
              ELSE IndexErr(get_scalar(r1), 0, size - 1)
        r2 == IF arr /\ e2 = ""
              THEN LET b == get_scalar(r1).v
                   IN ER([o \in 1 .. size |-> Cell(m, b + o - 1).value], param_type, FALSE)
              ELSE r1
    IN [err |-> e2, r |-> r2]

\* FunctionCall.evaluate
FunctionCall_evaluate(e, m) ==
    IF NoFrame(m) THEN Fail(m, "RuntimeError") ELSE
    The({
    LET num_args == Len(e.args)
    IN IF ctx.step < num_args
       THEN The({
            IF Stopped(o) THEN o
            ELSE LET arg_idx == ctx.step
                     known == e.func_name \in DOMAIN program.functions
                     params == IF known THEN program.functions[e.func_name].params
                               ELSE <<>>
                 IN The({ IF c.err # "" THEN Fail(o.m, c.err)
                          ELSE Out(put_ctx(o.m, e.id,
                                     advance(store(get_ctx(o.m, e.id),
                                                   ArgKey(arg_idx), c.r))),
                                   INCOMPLETE)
                          : c \in {IF arg_idx < Len(params)
                                   THEN FunctionCall_convert(o.m, o.r,
                                                             params[arg_idx + 1].typ)
                                   ELSE [err |-> "", r |-> o.r]} })
            : o \in {evaluate(e.args[ctx.step + 1], m)} })
       ELSE IF ctx.step = num_args
       THEN IF \E i \in 0 .. (num_args - 1) : ctx_get(ctx, ArgKey(i)).k # "ER"
            THEN Fail(m, "AttributeError")
            ELSE LET arg_values == [i \in 1 .. num_args |->
                                      ctx_get(ctx, ArgKey(i - 1)).values]
                 IN Out(put_ctx(m, e.id,
                          store(store(ctx, "ready_to_call", PyBool(TRUE)),
                                "arg_values", arg_values)),
                        INCOMPLETE)
       ELSE IF ctx.step = num_args + 1
       THEN Out(m, ctx_get(ctx, "function_result"))
       ELSE Out(m, INCOMPLETE)
    : ctx \in {get_ctx(m, e.id)} })

\* ArrayLiteral.evaluate and VecMacro.evaluate (the same but for the type)
Elements_evaluate(e, m, typ) ==
    IF NoFrame(m) THEN Fail(m, "RuntimeError") ELSE
    The({
    LET num_elements == Len(e.elements)
    IN IF ctx.step < num_elements
       THEN The({ IF Stopped(o) THEN o
                  ELSE Out(put_ctx(o.m, e.id,
                             advance(store(get_ctx(o.m, e.id), ElemKey(ctx.step), o.r))),
                           INCOMPLETE)
                  : o \in {evaluate(e.elements[ctx.step + 1], m)} })
       ELSE LET bad == {i \in 0 .. (num_elements - 1) :
                          get_scalar_err(ctx_get(ctx, ElemKey(i))) # ""}
            IN IF bad # {}
               THEN Fail(m, get_scalar_err(ctx_get(ctx,
                              ElemKey(CHOOSE i \in bad : \A j \in bad : i <= j))))
               ELSE Out(m, ER([i \in 1 .. num_elements |->
                                 get_scalar(ctx_get(ctx, ElemKey(i - 1)))], typ, FALSE))
    : ctx \in {get_ctx(m, e.id)} })

\* BoxNew.evaluate
BoxNew_evaluate(e, m) ==
    IF NoFrame(m) THEN Fail(m, "RuntimeError") ELSE
    The({ IF p0.stop THEN Out(p0.m, p0.r) ELSE
          The({ IF value_result.k # "ER" THEN Fail(p0.m, "AttributeError")
                ELSE Out(p0.m, ER(value_result.values, "Box", FALSE))
                : value_result \in {ctx_get(get_ctx(p0.m, e.id), "value_result")} })
          : p0 \in {Phase(m, e.id, 0, "value_result", e.value)} })

(***************************************************************************)
(* builtins.py: MethodCall                                                 *)
\* a faulty variant of the move loop of _execute_push: the old cells are
\* copied but not marked freed
RECURSIVE push_move_keeps_old(_, _, _, _, _)
push_move_keeps_old(m, ptr, new_ptr, i, length) ==
    IF i >= length \/ m.err # "" THEN m
    ELSE IF ~InRange(ptr + i) \/ ~InRange(new_ptr + i) THEN Raise(m, "IndexError")
    ELSE push_move_keeps_old(
           [m EXCEPT !.mem = [m.mem EXCEPT
                                ![PyIdx(new_ptr + i)] =
                                   [@ EXCEPT !.value = m.mem[PyIdx(ptr + i)].value,
                                             !.label = Idx("heap", new_ptr + i)]]],
           ptr, new_ptr, i + 1, length)

(***************************************************************************)
\* the loop of _execute_push that moves the elements to the new buffer
RECURSIVE push_move(_, _, _, _, _)
push_move(m, ptr, new_ptr, i, length) ==
    IF i >= length \/ m.err # "" THEN m
    ELSE IF ~InRange(ptr + i) \/ ~InRange(new_ptr + i) THEN Raise(m, "IndexError")
    ELSE LET old == PyIdx(ptr + i)
             new == PyIdx(new_ptr + i)
             mem1 == [m.mem EXCEPT ![new].value = m.mem[old].value]
             mem2 == [mem1 EXCEPT ![new].label = Idx("heap", new_ptr + i)]
             mem3 == [mem2 EXCEPT ![old].freed = TRUE]
             mem4 == [mem3 EXCEPT ![old].value = FREED]
         IN push_move([m EXCEPT !.mem = mem4], ptr, new_ptr, i + 1, length)

\* MethodCall._execute_push
execute_push(m, base_addr, arg_result) ==
    IF base_addr = None THEN Fail(m, "ValueError")
    ELSE IF IndexErr(base_addr, 0, 2) # "" THEN Fail(m, IndexErr(base_addr, 0, 2))
    ELSE
    LET p_addr == PyIdx(base_addr.v + 2)
        l_addr == PyIdx(base_addr.v + 1)
        c_addr == PyIdx(base_addr.v + 0)
        ptr == m.mem[p_addr].value
        length == m.mem[l_addr].value
        cap == m.mem[c_addr].value
    IN IF ~(IsInt(ptr) /\ IsInt(length) /\ IsInt(cap)) THEN Fail(m, "ValueError")
       ELSE IF get_scalar_err(arg_result) # "" THEN Fail(m, get_scalar_err(arg_result))
       ELSE
       LET val == get_scalar(arg_result)
           grow == length.v >= cap.v
           new_cap == IF cap.v > 0 THEN cap.v * 2 ELSE 4
       IN The({
          The({
              IF m1.err # "" THEN Out(m1, PyNone)
              ELSE IF ~InRange(al.addr + length.v) THEN Fail(m1, "IndexError")
              ELSE Out([m1 EXCEPT !.mem = [[m1.mem EXCEPT
                                              ![PyIdx(al.addr + length.v)].value = val]
                                            EXCEPT ![l_addr].value = I(length.v + 1)]],
                       ER(<<None>>, "()", FALSE))
          : m1 \in {IF grow
                    THEN The({ IF moved.err # "" THEN moved
                               ELSE [moved EXCEPT !.mem = [moved.mem EXCEPT
                                                    ![p_addr].value = I(al.addr),
                                                    ![c_addr].value = I(new_cap)]]
                               : moved \in {push_move(al.m, ptr.v, al.addr, 0, length.v)} })
                    ELSE m} })
          : al \in {IF grow THEN alloc_heap(m, NoneLabel, "i32", new_cap)
                    ELSE [m |-> m, addr |-> ptr.v]} })

\* MethodCall._execute_clone
execute_clone(m, obj_result) ==
    IF obj_result.k # "ER" THEN Fail(m, "AttributeError")
    ELSE IF ~obj_result.is_pointer THEN Fail(m, "NotImplementedError")
    ELSE IF get_scalar_err(obj_result) # "" THEN Fail(m, get_scalar_err(obj_result))
    ELSE LET ha == get_scalar(obj_result)
         IN IF ~(IsInt(ha) /\ 0 <= ha.v /\ ha.v < MEM_SIZE) THEN Fail(m, "ValueError")
            ELSE The({ IF al.m.err # "" THEN Out(al.m, PyNone)
                       ELSE Out([al.m EXCEPT !.mem[al.addr].value = m.mem[ha.v].value],
                                ER(<<I(al.addr)>>, "Box<i32>", TRUE))
                       : al \in {alloc_heap(m, Lbl("data"), "i32", 1)} })

\* MethodCall.evaluate, "Step 0: Evaluate object"; its context is self.ctx,
\* on the node.  stop: evaluate returns r at once
MethodCall_obj(e, m) ==
    IF get_node_ctx(m, e.id).step # 0
    THEN [m |-> m, r |-> PyNone, stop |-> FALSE]
    ELSE The({ IF Stopped(o)
               THEN [m |-> o.m, r |-> o.r, stop |-> TRUE]
               ELSE [m |-> put_node_ctx(o.m, e.id,
                             advance(store(get_node_ctx(o.m, e.id), "obj_result", o.r))),
                     r |-> o.r, stop |-> FALSE]
               : o \in {evaluate(e.obj, m)} })

\* MethodCall.evaluate, "Steps 1-N: Evaluate arguments"; ran: the block ran
MethodCall_args(e, m) ==
    IF get_node_ctx(m, e.id).step > Len(e.args)
    THEN [m |-> m, r |-> PyNone, stop |-> FALSE, ran |-> FALSE]
    ELSE The({ IF Stopped(o)
               THEN [m |-> o.m, r |-> o.r, stop |-> TRUE, ran |-> TRUE]
               ELSE [m |-> put_node_ctx(o.m, e.id,
                             advance(store(get_node_ctx(o.m, e.id),
                                           ArgKey(get_node_ctx(m, e.id).step - 1), o.r))),
                     r |-> o.r, stop |-> FALSE, ran |-> TRUE]
               : o \in {evaluate(e.args[get_node_ctx(m, e.id).step], m)} })

\* MethodCall.evaluate
MethodCall_evaluate(e, m) ==
    The({ IF p0.stop THEN Out(p0.m, p0.r) ELSE
    The({ IF p1.stop THEN Out(p1.m, p1.r)
          ELSE IF p1.ran /\ get_node_ctx(p1.m, e.id).step <= Len(e.args)
          THEN Out(p1.m, INCOMPLETE)
          ELSE IF e.method = "push"
          THEN The({ IF o2.m.err # "" \/ get_scalar_err(o2.r) # ""
                     THEN Out([o2.m EXCEPT !.err = "ValueError"], PyNone)
                     ELSE execute_push(
                            put_node_ctx(o2.m, e.id,
                              advance(store(get_node_ctx(o2.m, e.id),
                                            "base_addr", get_scalar(o2.r)))),
                            get_scalar(o2.r),
                            ctx_get(get_node_ctx(o2.m, e.id), "arg_0"))
                     : o2 \in {evaluate(e.obj, p1.m)} })
          ELSE IF e.method = "clone"
          THEN execute_clone(p1.m, ctx_get(get_node_ctx(p1.m, e.id), "obj_result"))
          ELSE Fail(p1.m, "NotImplementedError")
    : p1 \in {MethodCall_args(e, p0.m)} })
    : p0 \in {MethodCall_obj(e, m)} })

\* a raw Python value kept in a context
PyVal(v) == [k |-> "value", v |-> v]

\* `not isinstance(addr, int) or addr < 0 or addr >= len(mem.mem)`
BadAddr(addr) == ~(IsInt(addr) /\ addr.v >= 0 /\ addr.v < MEM_SIZE)

\* the pointer-chain loop of Dereference.get_target_address and of
\* DereferenceLValue.get_address: n hops from addr, each hop checked; the
\* address the chain ends on is handed back unchecked
RECURSIVE follow_chain(_, _, _)
follow_chain(m, addr, n) ==
    IF n <= 0 THEN [m |-> m, err |-> "", addr |-> addr]
    ELSE IF BadAddr(addr) THEN [m |-> m, err |-> "ValueError", addr |-> addr]
    ELSE follow_chain(m, m.mem[addr.v].value, n - 1)

\* Dereference.get_target_address (and DereferenceLValue.get_address, which
\* has the same body): [m, err, addr]
get_target_address(e, m) ==
    The({ IF o.m.err # "" THEN [m |-> o.m, err |-> o.m.err, addr |-> None]
          ELSE IF IsIncomplete(o.r) THEN [m |-> o.m, err |-> "RuntimeError", addr |-> None]
          ELSE IF get_scalar_err(o.r) # ""
          THEN [m |-> o.m, err |-> get_scalar_err(o.r), addr |-> None]
          ELSE follow_chain(o.m, get_scalar(o.r), e.levels - 1)
          : o \in {evaluate(e.expr, m)} })

\* Dereference.evaluate
Dereference_evaluate(e, m) ==
    IF NoFrame(m) THEN Fail(m, "RuntimeError")
    ELSE The({
         IF t.err # "" THEN Fail(t.m, t.err)
         ELSE The({
              The({ IF BadAddr(target) THEN Fail(m1, "ValueError")
                    ELSE Out(m1, ER(<<m1.mem[target.v].value>>, m1.mem[target.v].typ,
                                    m1.mem[target.v].is_pointer))
                    : target \in {The({ IF c.k = "value" THEN c.v ELSE None
                                        : c \in {ctx_get(get_ctx(m1, e.id), "target_addr")} })} })
              : m1 \in {IF get_ctx(m, e.id).step = 0
                        THEN put_ctx(t.m, e.id,
                                     advance(store(get_ctx(t.m, e.id),
                                                   "target_addr", PyVal(t.addr))))
                        ELSE m} })
         : t \in {IF get_ctx(m, e.id).step = 0 THEN get_target_address(e, m)
                  ELSE [m |-> m, err |-> "", addr |-> None]} })

\* Reference.evaluate
Reference_evaluate(e, m) ==
    The({ IF a1.ok THEN Out(m, ER(<<I(a1.addr)>>, RefTyp(e.var_name), TRUE))
          ELSE The({ IF a2.ok THEN Out(m, ER(<<I(a2.addr)>>, RefTyp(e.var_name), TRUE))
                     ELSE Fail(m, "KeyError")
                     : a2 \in {get_addr(m, Fld(e.var_name, "cap"))} })
          : a1 \in {get_addr(m, Lbl(e.var_name))} })

\* Expression.evaluate, by node kind
evaluate(e, m) ==
    CASE e.k = "Literal" -> Out(m, ER(<<e.value>>, e.typ, FALSE))
      [] e.k = "Variable" -> Variable_evaluate(e, m)
      [] e.k = "BinaryOp" -> BinaryOp_evaluate(e, m)
      [] e.k = "FunctionCall" -> FunctionCall_evaluate(e, m)
      [] e.k = "ArrayLiteral" -> Elements_evaluate(e, m, "i32")
      [] e.k = "VecMacro" -> Elements_evaluate(e, m, "VecLiteral")
      [] e.k = "BoxNew" -> BoxNew_evaluate(e, m)
      [] e.k = "MethodCall" -> MethodCall_evaluate(e, m)
      [] e.k = "Dereference" -> Dereference_evaluate(e, m)
      [] e.k = "Reference" -> Reference_evaluate(e, m)

(***************************************************************************)
(* lvalues.py                                                              *)
(***************************************************************************)
\* VariableLValue.get_address: [m, err, addr]
VariableLValue_get_address(lv, m) ==
    The({ IF a1.ok THEN [m |-> m, err |-> "", addr |-> I(a1.addr)]
          ELSE The({ IF a2.ok THEN [m |-> m, err |-> "", addr |-> I(a2.addr)]
                     ELSE [m |-> m, err |-> "KeyError", addr |-> None]
                     : a2 \in {get_addr(m, Fld(lv.name, "cap"))} })
          : a1 \in {get_addr(m, Lbl(lv.name))} })

\* ArrayIndexLValue.get_address, step 1: the base address of the array
ArrayIndexLValue_base(lv, m) ==
    IF lv.array.k = "Dereference" THEN get_target_address(lv.array, m)
    ELSE The({ IF o.m.err # "" THEN [m |-> o.m, err |-> o.m.err, addr |-> None]
               ELSE IF lv.array.k # "Variable" /\ IsIncomplete(o.r)
               THEN [m |-> o.m, err |-> "RuntimeError", addr |-> None]
               ELSE IF get_scalar_err(o.r) # ""
               THEN [m |-> o.m, err |-> get_scalar_err(o.r), addr |-> None]
               ELSE [m |-> o.m, err |-> "", addr |-> get_scalar(o.r)]
               : o \in {evaluate(lv.array, m)} })

\* an address that is checked against the extent of the array before it is
\* handed back
ArrayIndexLValue_sum_checked(m, base_addr, idx) ==
    IF base_addr = None THEN [m |-> m, err |-> "ValueError", addr |-> None]
    ELSE IF ~(IsInt(base_addr) /\ IsInt(idx))
    THEN [m |-> m, err |-> "TypeError", addr |-> None]
    ELSE IF ~(InRange(base_addr.v) /\ InRange(base_addr.v + idx.v)
              /\ IsInt(Cell(m, base_addr.v).value)
              /\ Cell(m, base_addr.v + idx.v).label.n = Cell(m, base_addr.v).label.n)
    THEN [m |-> m, err |-> "IndexError", addr |-> None]
    ELSE [m |-> m, err |-> "", addr |-> I(base_addr.v + idx.v)]

\* ArrayIndexLValue.get_address, the last lines: base_addr + idx, no check
\* of idx against the length of the array
ArrayIndexLValue_sum(m, base_addr, idx) ==
    IF base_addr = None THEN [m |-> m, err |-> "ValueError", addr |-> None]
    ELSE IF ~(IsInt(base_addr) /\ IsInt(idx))
    THEN [m |-> m, err |-> "TypeError", addr |-> None]
    ELSE [m |-> m, err |-> "", addr |-> I(base_addr.v + idx.v)]

\* ArrayIndexLValue.get_address
ArrayIndexLValue_get_address(lv, m) ==
    The({ IF b.err # "" THEN b
          ELSE The({ IF o.m.err # "" THEN [m |-> o.m, err |-> o.m.err, addr |-> None]
                     ELSE IF IsIncomplete(o.r)
                     THEN [m |-> o.m, err |-> "RuntimeError", addr |-> None]
                     ELSE IF get_scalar_err(o.r) # ""
                     THEN [m |-> o.m, err |-> get_scalar_err(o.r), addr |-> None]
                     ELSE ArrayIndexLValue_sum(o.m, b.addr, get_scalar(o.r))
                     : o \in {evaluate(lv.index, b.m)} })
          : b \in {ArrayIndexLValue_base(lv, m)} })

\* LValue.get_address, by node kind: the machine it leaves, the name of the
\* exception it raises ("" when none) and the value it returns
get_address(lv, m) ==
    CASE lv.k = "VariableLValue" -> VariableLValue_get_address(lv, m)
      [] lv.k = "DereferenceLValue" -> get_target_address(lv, m)
      [] lv.k = "ArrayIndexLValue" -> ArrayIndexLValue_get_address(lv, m)

(***************************************************************************)
(* instructions.py.  execute() hands back the machine and the status.      *)
(***************************************************************************)
Done(m) == [m |-> m, status |-> "COMPLETE"]
Susp(m) == [m |-> m, status |-> "INCOMPLETE"]
Exc(m, e) == [m |-> Raise(m, e), status |-> "RAISED"]

\* a faulty variant: the first and the third word receive each other's value
alloc_three_swapped(m, a, b, c) ==
    The({ IF r1.m.err # "" THEN r1.m ELSE
          The({ IF r2.m.err # "" THEN r2.m ELSE
                alloc_stack_var(r2.m, c[1], c[2], a[3], c[4], 1).m
                : r2 \in {alloc_stack_var(r1.m, b[1], b[2], b[3], b[4], 1)} })
          : r1 \in {alloc_stack_var(m, a[1], a[2], c[3], a[4], 1)} })

\* three alloc_stack_var calls in a row (the metadata words of a Vec);
\* each of a, b, c is <<label, typ, value, is_pointer>>
alloc_three(m, a, b, c) ==
    The({ IF r1.m.err # "" THEN r1.m ELSE
          The({ IF r2.m.err # "" THEN r2.m ELSE
                alloc_stack_var(r2.m, c[1], c[2], c[3], c[4], 1).m
                : r2 \in {alloc_stack_var(r1.m, b[1], b[2], b[3], b[4], 1)} })
          : r1 \in {alloc_stack_var(m, a[1], a[2], a[3], a[4], 1)} })

\* LetBinding.execute, "Step 1: Allocate and store"
LetBinding_store(instr, m, result) ==
    IF result.k # "ER" THEN Exc(m, "AttributeError")
    ELSE IF result.typ = "Vec"
    THEN IF Len(result.values) = 3
         THEN LET cap_val == result.values[1]
                  len_val == result.values[2]
                  ptr_val == result.values[3]
              IN Done(alloc_three(m,
                        <<Fld(instr.var_name, "ptr"), "ptr", ptr_val, TRUE>>,
                        <<Fld(instr.var_name, "len"), "usize", len_val, FALSE>>,
                        <<Fld(instr.var_name, "cap"), "usize", cap_val, FALSE>>))
         ELSE Exc(m, "ValueError")
    ELSE IF result.typ = "VecLiteral"
    THEN LET n == Len(result.values)
             cap == IF n > 0 THEN n ELSE 1
         IN The({
            IF al.m.err # "" THEN Exc(al.m, al.m.err)
            ELSE Done(alloc_three(
                        [al.m EXCEPT !.mem = [a \in Addrs |->
                           IF a >= al.addr /\ a < al.addr + n
                           THEN [al.m.mem[a] EXCEPT
                                   !.value = result.values[a - al.addr + 1],
                                   !.label = Idx(instr.var_name, a - al.addr)]
                           ELSE al.m.mem[a]]],
                        <<Fld(instr.var_name, "ptr"), "ptr", I(al.addr), TRUE>>,
                        <<Fld(instr.var_name, "len"), "usize", I(n), FALSE>>,
                        <<Fld(instr.var_name, "cap"), "usize", I(cap), FALSE>>))
            : al \in {alloc_heap(m, NoneLabel, "i32", cap)} })
    ELSE IF result.typ = "Box"
    THEN The({
         IF al.m.err # "" THEN Exc(al.m, al.m.err)
         ELSE IF get_scalar_err(result) # "" THEN Exc(al.m, get_scalar_err(result))
         ELSE Done(alloc_stack_var(
                     [al.m EXCEPT !.mem[al.addr].value = get_scalar(result)],
                     Lbl(instr.var_name), "Box<i32>", I(al.addr), TRUE, 1).m)
         : al \in {alloc_heap(m, Lbl("data"), "i32", 1)} })
    ELSE IF Len(result.values) > 1
    THEN Done(alloc_stack_var(m, Lbl(instr.var_name),
                              IF instr.typ # "" THEN instr.typ ELSE "array",
                              L(result.values), FALSE, Len(result.values)).m)
    ELSE IF get_scalar_err(result) # "" THEN Exc(m, get_scalar_err(result))
    ELSE Done(alloc_stack_var(m, Lbl(instr.var_name), result.typ,
                              get_scalar(result), result.is_pointer, 1).m)

\* LetBinding.execute
LetBinding_execute(instr, m) ==
    IF NoFrame(m) THEN Exc(m, "RuntimeError")
    ELSE IF get_ctx(m, instr.id).step = 0 /\ instr.expr.k = "NoExpr"
    THEN Done(alloc_stack_var(m, Lbl(instr.var_name),
                              IF instr.typ # "" THEN instr.typ ELSE "i32",
                              None, FALSE, 1).m)
    ELSE The({ IF p0.stop THEN Susp(p0.m)
               ELSE LetBinding_store(instr, p0.m,
                                     ctx_get(get_ctx(p0.m, instr.id), "expr_result"))
               : p0 \in {Phase(m, instr.id, 0, "expr_result", instr.expr)} })

\* Assignment.execute, "Step 1: Get address and handle storage based on type",
\* once get_address has handed back the int addr on machine m
Assignment_write(m, addr, result) ==
    LET n == Len(result.values)
    IN IF result.typ = "Vec"
       THEN Done([m EXCEPT !.mem = [a \in Addrs |->
                    IF \E o \in 0 .. 2 : PyIdx(addr + o) = a
                    THEN [m.mem[a] EXCEPT !.value =
                            result.values[1 + CHOOSE o \in 0 .. 2 : PyIdx(addr + o) = a]]
                    ELSE m.mem[a]]])
       ELSE IF n > 1 \/ IsArrayTyp(result.typ)
       THEN Done([m EXCEPT !.mem = [a \in Addrs |->
                    IF \E i \in 0 .. (n - 1) : addr + i < MEM_SIZE /\ PyIdx(addr + i) = a
                    THEN [m.mem[a] EXCEPT !.value =
                            result.values[1 + CHOOSE i \in 0 .. (n - 1) :
                                            addr + i < MEM_SIZE /\ PyIdx(addr + i) = a]]
                    ELSE m.mem[a]]])
       ELSE Done([m EXCEPT !.mem[PyIdx(addr)] =
                    [@ EXCEPT !.value = get_scalar(result),
                              !.is_pointer = result.is_pointer,
                              !.typ = IF result.typ # "" /\ @ = "" THEN result.typ ELSE @]])

\* Assignment.execute, "Step 1": the exceptions, in the order the code meets
\* them, then the write
Assignment_store(instr, m, result) ==
    The({
    LET n == IF result.k = "ER" THEN Len(result.values) ELSE 0
    IN IF ga.err # "" THEN Exc(ga.m, ga.err)
       ELSE IF result.k # "ER" THEN Exc(ga.m, "AttributeError")
       ELSE IF result.typ = "Vec"
       THEN IF n # 3 THEN Exc(ga.m, "ValueError")
            ELSE IF IndexErr(ga.addr, 0, 2) # "" THEN Exc(ga.m, IndexErr(ga.addr, 0, 2))
            ELSE Assignment_write(ga.m, ga.addr.v, result)
       ELSE IF n > 1 \/ IsArrayTyp(result.typ)
       THEN IF n = 0 THEN Done(ga.m)
            ELSE IF ~IsInt(ga.addr) THEN Exc(ga.m, "TypeError")
            ELSE IF \E i \in 0 .. (n - 1) : ga.addr.v + i < -MEM_SIZE
            THEN Exc(ga.m, "IndexError")
            ELSE Assignment_write(ga.m, ga.addr.v, result)
       ELSE IF get_scalar_err(result) # "" THEN Exc(ga.m, get_scalar_err(result))
       ELSE IF IndexErr(ga.addr, 0, 0) # "" THEN Exc(ga.m, IndexErr(ga.addr, 0, 0))
       ELSE Assignment_write(ga.m, ga.addr.v, result)
    : ga \in {get_address(instr.lvalue, m)} })

\* Assignment.execute
Assignment_execute(instr, m) ==
    IF NoFrame(m) THEN Exc(m, "RuntimeError")
    ELSE The({ IF p0.stop THEN Susp(p0.m)
               ELSE Assignment_store(instr, p0.m,
                                     ctx_get(get_ctx(p0.m, instr.id), "expr_result"))
               : p0 \in {Phase(m, instr.id, 0, "expr_result", instr.expr)} })

\* CompoundAssignment.execute
CompoundAssignment_execute(instr, m) ==
    IF NoFrame(m) THEN Exc(m, "RuntimeError")
    ELSE The({ IF p0.stop THEN Susp(p0.m) ELSE
         The({
         The({ IF ga.err # "" THEN Exc(ga.m, ga.err)
               ELSE IF IndexErr(ga.addr, 0, 0) # "" THEN Exc(ga.m, IndexErr(ga.addr, 0, 0))
               ELSE IF get_scalar_err(result) # "" THEN Exc(ga.m, get_scalar_err(result))
               ELSE LET addr == PyIdx(ga.addr.v)
                        op == CASE instr.op = "+=" -> "+" [] instr.op = "-=" -> "-"
                                [] instr.op = "*=" -> "*" [] instr.op = "/=" -> "/"
                                [] OTHER -> "?"
                    IN The({ IF res.err # "" THEN Exc(ga.m, res.err)
                             ELSE Done([ga.m EXCEPT !.mem[addr].value = res.v])
                             : res \in {BinaryOp_apply(op, ga.m.mem[addr].value,
                                                       get_scalar(result))} })
               : ga \in {get_address(instr.lvalue, p0.m)} })
         : result \in {ctx_get(get_ctx(p0.m, instr.id), "expr_result")} })
         : p0 \in {Phase(m, instr.id, 0, "expr_result", instr.expr)} })

\* ExpressionStatement.execute
ExpressionStatement_execute(instr, m) ==
    The({ IF o.m.err # "" THEN Exc(o.m, o.m.err)
          ELSE IF IsIncomplete(o.r) THEN Susp(o.m) ELSE Done(o.m)
          : o \in {evaluate(instr.expr, m)} })

\* IfElseBlock.execute
IfElseBlock_execute(instr, m) ==
    IF NoFrame(m) THEN Exc(m, "RuntimeError")
    ELSE The({ IF p0.stop THEN Susp(p0.m) ELSE
         The({ IF get_scalar_err(condition_result) # ""
               THEN Exc(p0.m, get_scalar_err(condition_result))
               ELSE Susp(put_ctx(p0.m, instr.id,
                           store(get_ctx(p0.m, instr.id), "chosen_branch",
                                 IF Truthy(get_scalar(condition_result))
                                 THEN PyStr("then") ELSE PyStr("else"))))
               : condition_result \in {ctx_get(get_ctx(p0.m, instr.id),
                                               "condition_result")} })
         : p0 \in {Phase(m, instr.id, 0, "condition_result", instr.condition)} })

\* a faulty variant of get_chosen_branch: the then body whatever was recorded
get_chosen_branch_then(instr, m) == instr.then_body

\* IfElseBlock.get_chosen_branch
get_chosen_branch(instr, m) ==
    IF ctx_get(get_ctx(m, instr.id), "chosen_branch") = PyStr("then")
    THEN instr.then_body ELSE instr.else_body

\* WhileLoop.execute
WhileLoop_execute(instr, m) ==
    IF NoFrame(m) THEN Exc(m, "RuntimeError")
    ELSE The({ IF o.m.err # "" THEN Exc(o.m, o.m.err)
               ELSE IF IsIncomplete(o.r) THEN Susp(o.m)
               ELSE The({ Susp(put_ctx(m1, instr.id,
                                 store(get_ctx(m1, instr.id), "condition_result", o.r)))
                          : m1 \in {IF "id" \in DOMAIN instr.condition
                                    THEN put_ctx(o.m, instr.condition.id, EmptyCtx)
                                    ELSE o.m} })
               : o \in {evaluate(instr.condition, m)} })

\* WhileLoop.should_continue: [err, b]
should_continue(instr, m) ==
    LET result == ctx_get(get_ctx(m, instr.id), "condition_result")
    IN IF get_scalar_err(result) # "" THEN [err |-> get_scalar_err(result), b |-> FALSE]
       ELSE [err |-> "", b |-> Truthy(get_scalar(result))]

\* a faulty variant of Return.execute: the result of the expression is handed
\* on as it is, an array or Vec as the address of its first word
Return_execute_by_address(instr, m) ==
    IF instr.expr.k = "NoExpr" THEN Done(m) ELSE
    The({
    IF o.m.err # "" THEN Exc(o.m, o.m.err)
    ELSE IF IsIncomplete(o.r) THEN Susp(o.m)
    ELSE IF o.r.k # "ER" THEN Exc(o.m, "AttributeError")
    ELSE IF NoFrame(o.m) THEN Exc(o.m, "RuntimeError")
    ELSE Done(put_ctx(o.m, instr.id,
                store(get_ctx(o.m, instr.id), "return_result", o.r)))
    : o \in {evaluate(instr.expr, m)} })

\* Return.execute
Return_execute(instr, m) ==
    IF instr.expr.k = "NoExpr" THEN Done(m) ELSE
    The({
    IF o.m.err # "" THEN Exc(o.m, o.m.err)
    ELSE IF IsIncomplete(o.r) THEN Susp(o.m)
    ELSE IF o.r.k # "ER" THEN Exc(o.m, "AttributeError")
    ELSE
    LET arr == IsArrayTyp(o.r.typ)
        vec == ~arr /\ IsVecTyp(o.r.typ)
        size == IF arr THEN ArrayTypLen(o.r.typ) ELSE 3
        e1 == IF ~(arr \/ vec) THEN ""
              ELSE IF get_scalar_err(o.r) # "" THEN get_scalar_err(o.r)
              ELSE IndexErr(get_scalar(o.r), 0, size - 1)
        result == IF (arr \/ vec) /\ e1 = ""
                  THEN ER([i \in 1 .. size |-> Cell(o.m, get_scalar(o.r).v + i - 1).value],
                          IF arr THEN o.r.typ ELSE "Vec", FALSE)
                  ELSE o.r
    IN IF e1 # "" THEN Exc(o.m, e1)
       ELSE IF NoFrame(o.m) THEN Exc(o.m, "RuntimeError")
       ELSE Done(put_ctx(o.m, instr.id,
                   store(get_ctx(o.m, instr.id), "return_result", result)))
    : o \in {evaluate(instr.expr, m)} })

\* a faulty variant of the Vec drop: the freed flag is not set
Drop_free_keeps_flag(memory, lo, hi) ==
    [a \in Addrs |->
       IF a >= lo /\ a < hi
       THEN [memory[a] EXCEPT !.value = FREED, !.label = NoneLabel]
       ELSE memory[a]]

\* a faulty variant of the Vec drop: the last cell of the buffer is left out
Drop_free_one_short(memory, lo, hi) ==
    [a \in Addrs |->
       IF a >= lo /\ a < hi - 1
       THEN [memory[a] EXCEPT !.freed = TRUE, !.value = FREED, !.label = NoneLabel]
       ELSE memory[a]]

\* Drop.execute, the cells a Vec drop marks freed
Drop_free(memory, lo, hi) ==
    [a \in Addrs |->
       IF a >= lo /\ a < hi
       THEN [memory[a] EXCEPT !.freed = TRUE, !.value = FREED, !.label = NoneLabel]
       ELSE memory[a]]

\* Drop.execute of a Vec
Drop_vec(instr, m) ==
    The({
         The({
         The({
            IF ~p.ok \/ ~c.ok THEN Exc(m, "KeyError")
            ELSE IF ~InRange(p.addr) \/ ~InRange(c.addr) THEN Exc(m, "IndexError")
            ELSE
            LET p_addr == PyIdx(p.addr)
                c_addr == PyIdx(c.addr)
                ptr == m.mem[p_addr].value
                cap == m.mem[c_addr].value
            IN The({
               IF ~l.ok THEN Exc([m EXCEPT !.mem = mem2], "KeyError")
               ELSE IF ~InRange(l.addr) THEN Exc([m EXCEPT !.mem = mem2], "IndexError")
               ELSE Done([m EXCEPT !.mem =
                            [[mem2 EXCEPT ![PyIdx(l.addr)].value = I(0)]
                               EXCEPT ![c_addr].value = I(0)]])
               : mem2 \in {[(IF IsInt(ptr) /\ IsInt(cap)
                             THEN Drop_free(m.mem, ptr.v, ptr.v + cap.v)
                             ELSE m.mem)
                            EXCEPT ![p_addr].value = NULL, ![p_addr].is_pointer = FALSE]} })
         : l \in {get_addr(m, Fld(instr.var_name, "len"))} })
         : c \in {get_addr(m, Fld(instr.var_name, "cap"))} })
         : p \in {get_addr(m, Fld(instr.var_name, "ptr"))} })

\* a drop that refuses a pointer that is not live
Drop_box_guarded(instr, m) ==
    The({
         IF ~p.ok THEN Exc(m, "KeyError")
         ELSE IF ~InRange(p.addr) THEN Exc(m, "IndexError")
         ELSE
         LET pa == PyIdx(p.addr)
             ha == m.mem[pa].value
         IN IF ~IsInt(ha) THEN Exc(m, "ValueError")
            ELSE IF ~InRange(ha.v) THEN Exc(m, "IndexError")
            ELSE IF m.mem[PyIdx(ha.v)].freed THEN Exc(m, "ValueError")
            ELSE LET mem1 == IF IsInt(ha)
                             THEN [m.mem EXCEPT ![PyIdx(ha.v)] =
                                     [@ EXCEPT !.freed = TRUE, !.label = NoneLabel,
                                               !.value = FREED]]
                             ELSE m.mem
                 IN Done([m EXCEPT !.mem =
                            [mem1 EXCEPT ![pa].value = NULL, ![pa].is_pointer = FALSE]])
         : p \in {get_addr(m, Lbl(instr.var_name))} })

\* Drop.execute of a Box or other pointer
Drop_box(instr, m) ==
    The({
         IF ~p.ok THEN Exc(m, "KeyError")
         ELSE IF ~InRange(p.addr) THEN Exc(m, "IndexError")
         ELSE
         LET pa == PyIdx(p.addr)
             ha == m.mem[pa].value
         IN IF IsInt(ha) /\ ~InRange(ha.v) THEN Exc(m, "IndexError")
            ELSE LET mem1 == IF IsInt(ha)
                             THEN [m.mem EXCEPT ![PyIdx(ha.v)] =
                                     [@ EXCEPT !.freed = TRUE, !.label = NoneLabel,
                                               !.value = FREED]]
                             ELSE m.mem
                 IN Done([m EXCEPT !.mem =
                            [mem1 EXCEPT ![pa].value = NULL, ![pa].is_pointer = FALSE]])
         : p \in {get_addr(m, Lbl(instr.var_name))} })

\* Drop.execute
Drop_execute(instr, m) ==
    IF instr.is_vec THEN Drop_vec(instr, m) ELSE Drop_box(instr, m)

\* Instruction.execute, by node kind
execute(instr, m) ==
    CASE instr.k = "Nop" -> Done(m)
      [] instr.k = "LetBinding" -> LetBinding_execute(instr, m)
      [] instr.k = "Assignment" -> Assignment_execute(instr, m)
      [] instr.k = "CompoundAssignment" -> CompoundAssignment_execute(instr, m)
      [] instr.k = "ExpressionStatement" -> ExpressionStatement_execute(instr, m)
      [] instr.k = "IfElseBlock" -> IfElseBlock_execute(instr, m)
      [] instr.k = "WhileLoop" -> WhileLoop_execute(instr, m)
      [] instr.k = "Return" -> Return_execute(instr, m)
      [] instr.k = "Drop" -> Drop_execute(instr, m)

(***************************************************************************)
(* base.py: ContextObjects.reset_ctx                                       *)
(***************************************************************************)
\* the attributes of a node that have a reset_ctx, in the order of vars(self)
Children(node) ==
    CASE node.k = "LetBinding" -> IF node.expr.k = "NoExpr" THEN <<>> ELSE <<node.expr>>
      [] node.k = "Assignment" -> <<node.lvalue, node.expr>>
      [] node.k = "CompoundAssignment" -> <<node.lvalue, node.expr>>
      [] node.k = "ExpressionStatement" -> <<node.expr>>
      [] node.k = "IfElseBlock" -> <<node.condition>> \o node.then_body \o node.else_body
      [] node.k = "WhileLoop" -> <<node.condition>> \o node.body
      [] node.k = "Return" -> IF node.expr.k = "NoExpr" THEN <<>> ELSE <<node.expr>>
      [] node.k = "BinaryOp" -> <<node.left, node.right>>
      [] node.k = "FunctionCall" -> node.args
      [] node.k = "ArrayLiteral" -> node.elements
      [] node.k = "VecMacro" -> node.elements
      [] node.k = "BoxNew" -> <<node.value>>
      [] node.k = "Dereference" -> <<node.expr>>
      [] node.k = "DereferenceLValue" -> <<node.expr>>
      [] node.k = "ArrayIndexLValue" -> <<node.array, node.index>>
      [] OTHER -> <<>>

RECURSIVE reset_ctx(_, _)
RECURSIVE reset_all(_, _)
\* MethodCall overrides reset_ctx(self) without the mem parameter, so the
\* call attr_value.reset_ctx(mem) of line 107/113 is a TypeError
reset_ctx(node, m) ==
    IF m.err # "" THEN m
    ELSE IF node.k = "MethodCall" THEN Raise(m, "TypeError")
    ELSE IF NoFrame(m) THEN Raise(m, "RuntimeError")
    ELSE reset_all(Children(node),
                   IF "id" \in DOMAIN node THEN put_ctx(m, node.id, EmptyCtx) ELSE m)
reset_all(nodes, m) ==
    IF nodes = <<>> THEN m
    ELSE reset_all(Tail(nodes), reset_ctx(Head(nodes), m))

(***************************************************************************)
(* runner.py: FunctionDef.param_size, _calc_frame_size, _calc_body_size    *)
(***************************************************************************)
Max(a, b) == IF a >= b THEN a ELSE b

\* "Vec" in typ
ContainsVec(typ) == typ \in {"Vec", "Vec<i32>", "&Vec"}

RECURSIVE param_size(_)
param_size(params) ==
    IF params = <<>> THEN 0
    ELSE LET typ == Head(params).typ
         IN (IF IsPtrTyp(typ) /\ typ # "*i32" THEN 1
             ELSE IF ContainsVec(typ) THEN 3
             ELSE IF IsArrayTyp(typ) THEN ArrayTypLen(typ)
             ELSE 1) + param_size(Tail(params))

\* the slots _calc_body_size counts for one LetBinding
let_size(instr) ==
    IF instr.typ # ""
    THEN IF ContainsVec(instr.typ) THEN 3
         ELSE IF IsArrayTyp(instr.typ) THEN ArrayTypLen(instr.typ)
         ELSE 1
    ELSE IF instr.expr.k # "NoExpr"
    THEN IF instr.expr.k = "VecMacro" THEN 3
         ELSE IF instr.expr.k = "ArrayLiteral" THEN Len(instr.expr.elements)
         ELSE 1
    ELSE 1

RECURSIVE calc_body_size(_)
calc_body_size(body) ==
    IF body = <<>> THEN 0
    ELSE LET instr == Head(body)
         IN (CASE instr.k = "LetBinding" -> let_size(instr)
               [] instr.k = "IfElseBlock" ->
                    Max(calc_body_size(instr.then_body), calc_body_size(instr.else_body))
               [] instr.k = "WhileLoop" -> calc_body_size(instr.body)
               [] OTHER -> 0) + calc_body_size(Tail(body))

\* a frame with one spare slot
calc_frame_size_padded(func) ==
    Max(param_size(func.params) + calc_body_size(func.body), 1) + 1
\* ProgramRunner._calc_frame_size
calc_frame_size(func) == Max(param_size(func.params) + calc_body_size(func.body), 1)

(***************************************************************************)
(* runner.py: ProgramCounter and ProgramRunner                             *)
(***************************************************************************)
ProgramCounter(fn_name, line_idx) ==
    [fn_name |-> fn_name, line_idx |-> line_idx, block_stack |-> <<>>, ret_stack |-> <<>>]

Last(seq) == seq[Len(seq)]
Front(seq) == SubSeq(seq, 1, Len(seq) - 1)

\* "Get current instruction": the innermost open block, else the function body
CurBody(c) ==
    IF c.block_stack # <<>> THEN Last(c.block_stack).body
    ELSE program.functions[c.fn_name].body

\* ProgramRunner._unwind_if_needed
RECURSIVE unwind_if_needed(_)
unwind_if_needed(c) ==
    IF c.line_idx >= Len(CurBody(c)) /\ c.block_stack # <<>>
    THEN unwind_if_needed([c EXCEPT !.line_idx = Last(c.block_stack).resume_idx,
                                    !.block_stack = Front(c.block_stack)])
    ELSE c

\* what step() hands back: the machine, the program counter, its return
\* value, and the branch of step() that ran
Stepped(m, c, ret, branch) == [m |-> m, pc |-> c, ret |-> ret, branch |-> branch]

\* a faulty variant of _handle_return: the blocks the callee had open are
\* kept instead of the caller's saved block list
handle_return_keeps_blocks(m, c, return_instr) ==
    IF return_instr.k = "Return" /\ NoFrame(m) THEN [m |-> Raise(m, "RuntimeError"), pc |-> c]
    ELSE
    The({
    IF c.ret_stack # <<>>
    THEN LET saved == Last(c.ret_stack)
             c1 == [fn_name |-> saved.fn_name, line_idx |-> saved.line_idx,
                    block_stack |-> c.block_stack,
                    ret_stack |-> Front(c.ret_stack)]
         IN The({
            IF waiting_instr.k \in {"LetBinding", "Assignment", "CompoundAssignment"}
               /\ return_result.k # "None"
            THEN IF NoFrame(m1) THEN [m |-> Raise(m1, "RuntimeError"), pc |-> c1]
                 ELSE [m |-> put_ctx(m1, waiting_instr.id,
                               advance(store(get_ctx(m1, waiting_instr.id),
                                             "expr_result", return_result))),
                       pc |-> c1]
            ELSE [m |-> m1, pc |-> c1]
            : waiting_instr \in {CurBody(c1)[c1.line_idx + 1]} })
    ELSE [m |-> m1,
          pc |-> [c EXCEPT !.line_idx = Len(program.functions["main"].body)]]
    : m1 \in {pop_frame(m)},
      return_result \in {IF return_instr.k = "Return"
                         THEN ctx_get(get_ctx(m, return_instr.id), "return_result")
                         ELSE PyNone} })

\* a faulty variant of _handle_return: the result is stored in the waiting
\* context but the context is not advanced
handle_return_forgets(m, c, return_instr) ==
    IF return_instr.k = "Return" /\ NoFrame(m) THEN [m |-> Raise(m, "RuntimeError"), pc |-> c]
    ELSE
    The({
    IF c.ret_stack # <<>>
    THEN LET saved == Last(c.ret_stack)
             c1 == [fn_name |-> saved.fn_name, line_idx |-> saved.line_idx,
                    block_stack |-> saved.block_stack,
                    ret_stack |-> Front(c.ret_stack)]
         IN The({
            IF waiting_instr.k \in {"LetBinding", "Assignment", "CompoundAssignment"}
               /\ return_result.k # "None"
            THEN IF NoFrame(m1) THEN [m |-> Raise(m1, "RuntimeError"), pc |-> c1]
                 ELSE [m |-> put_ctx(m1, waiting_instr.id,
                               store(get_ctx(m1, waiting_instr.id),
                                     "expr_result", return_result)),
                       pc |-> c1]
            ELSE [m |-> m1, pc |-> c1]
            : waiting_instr \in {CurBody(c1)[c1.line_idx + 1]} })
    ELSE [m |-> m1,
          pc |-> [c EXCEPT !.line_idx = Len(program.functions["main"].body)]]
    : m1 \in {pop_frame(m)},
      return_result \in {IF return_instr.k = "Return"
                         THEN ctx_get(get_ctx(m, return_instr.id), "return_result")
                         ELSE PyNone} })

\* _handle_return leaving the program counter on main's return
handle_return_stays(m, c, return_instr) ==
    IF return_instr.k = "Return" /\ NoFrame(m) THEN [m |-> Raise(m, "RuntimeError"), pc |-> c]
    ELSE
    The({
    IF c.ret_stack # <<>>
    THEN LET saved == Last(c.ret_stack)
             c1 == [fn_name |-> saved.fn_name, line_idx |-> saved.line_idx,
                    block_stack |-> saved.block_stack,
                    ret_stack |-> Front(c.ret_stack)]
         IN The({
            IF waiting_instr.k \in {"LetBinding", "Assignment", "CompoundAssignment"}
               /\ return_result.k # "None"
            THEN IF NoFrame(m1) THEN [m |-> Raise(m1, "RuntimeError"), pc |-> c1]
                 ELSE [m |-> put_ctx(m1, waiting_instr.id,
                               advance(store(get_ctx(m1, waiting_instr.id),
                                             "expr_result", return_result))),
                       pc |-> c1]
            ELSE [m |-> m1, pc |-> c1]
            : waiting_instr \in {CurBody(c1)[c1.line_idx + 1]} })
    ELSE [m |-> m1, pc |-> c]
    : m1 \in {pop_frame(m)},
      return_result \in {IF return_instr.k = "Return"
                         THEN ctx_get(get_ctx(m, return_instr.id), "return_result")
                         ELSE PyNone} })

\* ProgramRunner._handle_return; return_instr is a Return node or NoExpr (None)
handle_return(m, c, return_instr) ==
    IF return_instr.k = "Return" /\ NoFrame(m) THEN [m |-> Raise(m, "RuntimeError"), pc |-> c]
    ELSE
    The({
    IF c.ret_stack # <<>>
    THEN LET saved == Last(c.ret_stack)
             c1 == [fn_name |-> saved.fn_name, line_idx |-> saved.line_idx,
                    block_stack |-> saved.block_stack,
                    ret_stack |-> Front(c.ret_stack)]
         IN The({
            IF waiting_instr.k \in {"LetBinding", "Assignment", "CompoundAssignment"}
               /\ return_result.k # "None"
            THEN IF NoFrame(m1) THEN [m |-> Raise(m1, "RuntimeError"), pc |-> c1]
                 ELSE [m |-> put_ctx(m1, waiting_instr.id,
                               advance(store(get_ctx(m1, waiting_instr.id),
                                             "expr_result", return_result))),
                       pc |-> c1]
            ELSE [m |-> m1, pc |-> c1]
            : waiting_instr \in {CurBody(c1)[c1.line_idx + 1]} })
    ELSE [m |-> m1,
          pc |-> [c EXCEPT !.line_idx = Len(program.functions["main"].body)]]
    : m1 \in {pop_frame(m)},
      return_result \in {IF return_instr.k = "Return"
                         THEN ctx_get(get_ctx(m, return_instr.id), "return_result")
                         ELSE PyNone} })

\* a faulty variant of _handle_block_end: the end of a callee's body is not
\* treated as a return
handle_block_end_never_returns(m, c) ==
    IF c.block_stack # <<>>
    THEN [m |-> m, pc |-> [c EXCEPT !.line_idx = Last(c.block_stack).resume_idx,
                                    !.block_stack = Front(c.block_stack)]]
    ELSE [m |-> m, pc |-> c]

\* ProgramRunner._handle_block_end
handle_block_end(m, c) ==
    IF c.block_stack # <<>>
    THEN [m |-> m, pc |-> [c EXCEPT !.line_idx = Last(c.block_stack).resume_idx,
                                    !.block_stack = Front(c.block_stack)]]
    ELSE IF c.ret_stack # <<>> THEN handle_return(m, c, NoExpr)
    ELSE [m |-> m, pc |-> c]

\* step(), "4. Map arguments": binds parameters i .. into the new frame
RECURSIVE map_arguments(_, _, _, _)
map_arguments(m, params, arg_values, i) ==
    IF i > Len(params) \/ m.err # "" THEN m
    ELSE IF i > Len(arg_values) THEN Raise(m, "IndexError")
    ELSE
    LET param_name == params[i].name
        param_type == params[i].typ
        vals == arg_values[i]
        is_ptr == IsPtrTyp(param_type)
        is_array == ~is_ptr /\ IsArrayTyp(param_type)
        is_vec == ~is_ptr /\ IsVecTyp(param_type)
    IN map_arguments(
         IF is_array
         THEN IF ArrayTypLen(param_type) # Len(vals)
              THEN Raise(m, "MemoryError")
              ELSE alloc_stack_var(m, Lbl(param_name), param_type, L(vals),
                                   FALSE, Len(vals)).m
         ELSE IF is_vec
         THEN IF Len(vals) # 3
              THEN Raise(m, "MemoryError")
              ELSE alloc_three(m,
                     <<Fld(param_name, "ptr"), "ptr", vals[3], TRUE>>,
                     <<Fld(param_name, "len"), "usize", vals[2], FALSE>>,
                     <<Fld(param_name, "cap"), "usize", vals[1], FALSE>>)
         ELSE alloc_stack_var(m, Lbl(param_name),
                              IF param_type # "" THEN param_type ELSE "i32",
                              IF Len(vals) > 0 THEN vals[1] ELSE L(vals),
                              is_ptr, 1).m,
         params, arg_values, i + 1)

\* step(), lines 139-240: the call transition
call_transition(m, c, instr) ==
    LET target_expr == instr.expr
        func_name == target_expr.func_name
        target_ctx == get_ctx(m, target_expr.id)
        arg_values == ctx_get(target_ctx, "arg_values")
        c1 == [c EXCEPT !.ret_stack = Append(@, [fn_name |-> c.fn_name,
                                                 line_idx |-> c.line_idx,
                                                 block_stack |-> c.block_stack])]
    IN The({
       IF func_name \notin DOMAIN program.functions
       THEN Stepped(Raise(m1, "KeyError"), c1, FALSE, "raise")
       ELSE The({
            IF m3.err # "" THEN Stepped(m3, c1, FALSE, "raise")
            ELSE Stepped(m3, [c1 EXCEPT !.fn_name = func_name, !.line_idx = 0,
                                        !.block_stack = <<>>], TRUE, "call")
            : m3 \in {map_arguments(
                        push_frame(m1, func_name,
                                   calc_frame_size(program.functions[func_name])),
                        program.functions[func_name].params, arg_values, 1)} })
       : m1 \in {put_ctx(m, target_expr.id,
                         advance(store(target_ctx, "ready_to_call", PyBool(FALSE))))} })

\* step(), lines 255-264: a WhileLoop whose condition has been evaluated
step_while(m, c, instr) ==
    The({
    IF sc.err # "" THEN Stepped(Raise(m, sc.err), c, FALSE, "raise")
    ELSE IF sc.b
    THEN The({ Stepped(m1,
                       [c EXCEPT !.block_stack = Append(@, [body |-> instr.body,
                                                            resume_idx |-> c.line_idx]),
                                 !.line_idx = 0],
                       TRUE, IF m1.err # "" THEN "raise" ELSE "while")
               : m1 \in {reset_ctx(instr, m)} })
    ELSE Stepped(m, [c EXCEPT !.line_idx = @ + 1], TRUE, "while")
    : sc \in {should_continue(instr, m)} })

\* step(), lines 116-269: what follows status = instr.execute(), x
step_executed(c, instr, x) ==
    IF x.m.err # "" THEN Stepped(x.m, c, FALSE, "raise")
    ELSE IF x.status = "COMPLETE"
    THEN IF instr.k = "Return"
         THEN The({ Stepped(h.m, h.pc, FALSE, IF h.m.err # "" THEN "raise" ELSE "return")
                    : h \in {handle_return(x.m, c, instr)} })
         ELSE Stepped(x.m, unwind_if_needed([c EXCEPT !.line_idx = @ + 1]),
                      TRUE, "complete")
    ELSE IF /\ instr.k \in {"ExpressionStatement", "Return", "LetBinding", "Assignment"}
            /\ instr.expr.k = "FunctionCall"
            /\ ctx_get(get_ctx(x.m, instr.expr.id), "ready_to_call") = PyBool(TRUE)
    THEN call_transition(x.m, c, instr)
    ELSE IF instr.k = "IfElseBlock"
    THEN Stepped(x.m,
                 [c EXCEPT !.block_stack =
                             Append(@, [body |-> get_chosen_branch(instr, x.m),
                                        resume_idx |-> c.line_idx + 1]),
                           !.line_idx = 0],
                 TRUE, "if")
    ELSE IF instr.k = "WhileLoop" THEN step_while(x.m, c, instr)
    ELSE Stepped(x.m, c, FALSE, "eval")

\* ProgramRunner.step
step(m, c) ==
    The({
    IF body = <<>> \/ c.line_idx >= Len(body)
    THEN The({ Stepped(h.m, h.pc, TRUE, IF h.m.err # "" THEN "raise" ELSE "block_end")
               : h \in {handle_block_end(m, c)} })
    ELSE step_executed(c, body[c.line_idx + 1], execute(body[c.line_idx + 1], m))
    : body \in {CurBody(c)} })

\* ProgramRunner.is_finished
is_finished(c) ==
    /\ c.fn_name = "main"
    /\ c.ret_stack = <<>>
    /\ c.line_idx >= Len(program.functions["main"].body)

(***************************************************************************)
(* The state machine: one program is loaded, ProgramRunner.__init__ pushes *)
(* main's frame, and InteractiveRunner calls step(): a key press starts a   *)
(* round unless is_finished(), the round repeats step() until it returns   *)
(* True, and an exception ends the session.                                *)
(***************************************************************************)
CurrentMachine == Machine(mem, call_stack, sp, node_ctx, err)

\* the instruction step() is about to execute (Nop at the end of a block)
CurInstr(c) ==
    IF c.line_idx < Len(CurBody(c)) THEN CurBody(c)[c.line_idx + 1] ELSE Nop

\* step() is about to leave a function: a Return completes, or the body of
\* a called function has run off its end
Leaves(c, branch) ==
    \/ branch = "return"
    \/ branch = "block_end" /\ c.block_stack = <<>> /\ c.ret_stack # <<>>

\* where a program counter stands: function, instruction index, open blocks
Position(c) ==
    [fn_name |-> c.fn_name, line_idx |-> c.line_idx, block_stack |-> c.block_stack]

\* the caller position recorded for a step that returns to no caller
NoPosition == [fn_name |-> "", line_idx |-> -1, block_stack |-> <<>>]

\* History kept for the properties: last is what the last step did, before
\* is the memory model it started from, depths holds the call-stack depth
\* at each call that has not returned yet, callers the position the program
\* counter had at each of those calls, steps counts the step() calls.
Init ==
    /\ program \in {[name |-> p.name, code |-> p.code, functions |-> Functions(p)]
                   : p \in Programs}
    /\ \E m \in {push_frame(Machine([a \in Addrs |-> DefaultCell], <<>>, STACK_TOP + 1,
                                    EmptyMap, ""),
                            "main", calc_frame_size(program.functions["main"]))} :
          /\ mem = m.mem
          /\ call_stack = m.call_stack
          /\ sp = m.sp
          /\ node_ctx = m.node_ctx
          /\ err = m.err
    /\ pc = ProgramCounter("main", 0)
    /\ last = [branch |-> "init", ret |-> TRUE, instr |-> Nop,
               popped |-> FALSE, restore |-> -1, caller |-> NoPosition,
               opened |-> 0]
    /\ before = [mem |-> [a \in Addrs |-> DefaultCell], call_stack |-> <<>>,
                 sp |-> STACK_TOP + 1]
    /\ depths = <<>>
    /\ callers = <<>>
    /\ steps = 0

\* InteractiveRunner.on_press / step: is another step() call made
Running == err = "" /\ ~(last.ret /\ is_finished(pc)) /\ steps < MaxSteps

\* one call of step() that takes the given branch (the driver calls step()
\* only while Running)
Step(branch) ==
    /\ \E r \in {step(CurrentMachine, pc)} :
          /\ r.branch = branch
          /\ mem' = r.m.mem
          /\ call_stack' = r.m.call_stack
          /\ sp' = r.m.sp
          /\ node_ctx' = r.m.node_ctx
          /\ err' = r.m.err
          /\ pc' = r.pc
          /\ last' = [branch |-> branch, ret |-> r.ret, instr |-> CurInstr(pc),
                      popped |-> Leaves(pc, branch),
                      restore |-> IF Leaves(pc, branch) /\ depths # <<>>
                                  THEN Last(depths) ELSE -1,
                      caller |-> IF Leaves(pc, branch) /\ callers # <<>>
                                 THEN Last(callers) ELSE NoPosition,
                      opened |-> Len(pc.block_stack)]
    /\ before' = [mem |-> mem, call_stack |-> call_stack, sp |-> sp]
    /\ depths' = IF branch = "call" THEN Append(depths, Len(call_stack))
                 ELSE IF Leaves(pc, branch) /\ depths # <<>> THEN Front(depths)
                 ELSE depths
    /\ callers' = IF branch = "call" THEN Append(callers, Position(pc))
                  ELSE IF Leaves(pc, branch) /\ callers # <<>> THEN Front(callers)
                  ELSE callers
    /\ steps' = steps + 1
    /\ UNCHANGED program

StepBlockEnd ==
    /\ Running
    /\ Step("block_end")
StepComplete ==
    /\ Running
    /\ Step("complete")
StepReturn ==
    /\ Running
    /\ Step("return")
StepCall ==
    /\ Running
    /\ Step("call")
StepIf ==
    /\ Running
    /\ Step("if")
StepWhile ==
    /\ Running
    /\ Step("while")
StepEval ==
    /\ Running
    /\ Step("eval")
StepRaise ==
    /\ Running
    /\ Step("raise")

Next ==
    \/ StepBlockEnd
    \/ StepComplete
    \/ StepReturn
    \/ StepCall
    \/ StepIf
    \/ StepWhile
    \/ StepEval
    \/ StepRaise

Spec == Init /\ [][Next]_vars

(***************************************************************************)
(* Properties of the memory model                                          *)
(***************************************************************************)
\* the reserved range [base_addr, base_addr + size) of a frame
FrameRange(f) == f.base_addr .. (f.base_addr + f.size - 1)

\* C1: stack LIFO.  A call transition adds exactly one frame; the return
\* that matches a call brings the call stack back to the depth it had before
\* that call (so N nested calls followed by their N returns restore the
\* depth before the first call); and right after each pop every cell of the
\* popped frame's reserved range is a default cell.
C1_StackLifo ==
    /\ last.branch = "call" => Len(call_stack) = Len(before.call_stack) + 1
    /\ last.popped /\ err = "" =>
         /\ Len(call_stack) = Len(before.call_stack) - 1
         /\ last.restore >= 0 => Len(call_stack) = last.restore
         /\ \A a \in FrameRange(Last(before.call_stack)) : mem[a] = DefaultCell

\* two nested calls have both returned: f's frame, which held x and y, has
\* just been popped and main is alone on the stack again
C1_Witness ==
    /\ program.name = "nested"
    /\ last.popped /\ last.instr.k = "Return" /\ last.restore = 1
    /\ depths = <<>> /\ Len(call_stack) = 1
    /\ \E a \in FrameRange(Last(before.call_stack)) : before.mem[a].value # None

\* C2: frame geometry.  Every frame lies inside the stack region, the
\* reserved ranges of distinct frames are disjoint, each newer frame ends
\* where the previous one begins, and the stack pointer is the base address
\* of the top frame (MEM_SIZE when there is no frame).
C2_FrameGeometry ==
    /\ \A i \in 1 .. Len(call_stack) :
         /\ call_stack[i].base_addr >= STACK_LIMIT
         /\ call_stack[i].base_addr + call_stack[i].size <= MEM_SIZE
    /\ \A i \in 2 .. Len(call_stack) :
         call_stack[i].base_addr + call_stack[i].size = call_stack[i - 1].base_addr
    /\ \A i, j \in 1 .. Len(call_stack) :
         i # j => FrameRange(call_stack[i]) \cap FrameRange(call_stack[j]) = {}
    /\ sp = IF call_stack = <<>> THEN MEM_SIZE ELSE Last(call_stack).base_addr

\* three frames are live (main, f and g), one of them with more than one cell
C2_Witness ==
    /\ Len(call_stack) = 3
    /\ \E i \in 1 .. 3 : call_stack[i].size > 1

\* C3: the frame size is an over-approximation.  For every live frame,
\* slots_allocated <= size, and no variable of the frame is placed at an
\* address below the frame's base_addr.
C3_SlotsWithinFrame ==
    \A i \in 1 .. Len(call_stack) :
      /\ call_stack[i].slots_allocated <= call_stack[i].size
      /\ \A label \in DOMAIN call_stack[i].vars_map :
           call_stack[i].vars_map[label] >= call_stack[i].base_addr

\* C4: the owning-frame tag is authoritative.  A cell has frame_idx = k >= 0
\* exactly when k is the index of a live frame whose reserved range holds
\* the cell's address; every other cell has frame_idx = -1.
C4_FrameIdxAuthoritative ==
    \A a \in Addrs :
      /\ mem[a].frame_idx >= -1
      /\ \A k \in 0 .. (MEM_SIZE - 1) :
           mem[a].frame_idx = k <=>
             k < Len(call_stack) /\ a \in FrameRange(call_stack[k + 1])

\* the memory model as it stands (an exception that ended the run leaves
\* the MemoryModel object in place)
Model == Machine(mem, call_stack, sp, node_ctx, "")

\* the heap region, and the cells alloc_heap may hand out: those holding no
\* value and those marked freed
HeapAddrs == HEAP_BOTTOM .. (STACK_LIMIT - 1)
HeapSizes == 1 .. (STACK_LIMIT - HEAP_BOTTOM + 1)
Free(memory, a) == memory[a].value = None \/ memory[a].freed
Fits(memory, a, size) ==
    /\ a >= HEAP_BOTTOM
    /\ a + size <= STACK_LIMIT
    /\ \A b \in a .. (a + size - 1) : Free(memory, b)

\* C5: first fit.  In every reachable state and for every size, alloc_heap
\* returns the lowest address a >= HEAP_BOTTOM with a + size <= STACK_LIMIT
\* whose cells [a, a + size) all hold no value or are freed; it raises Heap
\* Overflow exactly when there is no such address, and then modifies no cell;
\* on success only the cells of the returned run are modified.
C5_FirstFit ==
    \A size \in HeapSizes :
      \A r \in {alloc_heap(Model, NoneLabel, "i32", size)} :
        IF \E a \in HeapAddrs : Fits(mem, a, size)
        THEN /\ r.m.err = ""
             /\ Fits(mem, r.addr, size)
             /\ \A b \in HeapAddrs : b < r.addr => ~Fits(mem, b, size)
             /\ \A c \in Addrs \ (r.addr .. (r.addr + size - 1)) : r.m.mem[c] = mem[c]
             /\ \A c \in r.addr .. (r.addr + size - 1) : c < STACK_LIMIT
             /\ r.m.call_stack = call_stack /\ r.m.sp = sp
        ELSE /\ r.m.err = "Heap Overflow"
             /\ r.m.mem = mem /\ r.m.call_stack = call_stack /\ r.m.sp = sp

\* a Vec buffer was dropped below a live Box: three cells fit into the freed
\* cells at HEAP_BOTTOM, four cells only fit above the Box, nine fit nowhere
C5_Witness ==
    /\ \A a \in HEAP_BOTTOM .. (HEAP_BOTTOM + 2) : mem[a].freed
    /\ ~Free(mem, HEAP_BOTTOM + 3)
    /\ alloc_heap(Model, NoneLabel, "i32", 3).addr = HEAP_BOTTOM
    /\ alloc_heap(Model, NoneLabel, "i32", 4).addr = HEAP_BOTTOM + 4
    /\ alloc_heap(Model, NoneLabel, "i32", 9).m.err = "Heap Overflow"

\* the stack cells that own a heap allocation (Vec ptr words and Box
\* pointers that have not been dropped), and the heap cells they own
LiveOwners(memory) ==
    {a \in STACK_LIMIT .. (MEM_SIZE - 1) : memory[a].is_pointer /\ IsInt(memory[a].value)}
LiveCells(memory) ==
    UNION { IF memory[a].label.f = "ptr"
            THEN IF a - 2 >= STACK_LIMIT /\ IsInt(memory[a - 2].value)
                 THEN memory[a].value.v .. (memory[a].value.v + memory[a - 2].value.v - 1)
                 ELSE {}
            ELSE {memory[a].value.v}
            : a \in LiveOwners(memory) }

\* C6: heap allocations never overlap live data.  In every reachable state
\* the run alloc_heap returns holds no cell of a Vec buffer (spare capacity
\* and unwritten cells included) or Box that has not been dropped.
C6_AllocAvoidsLiveData ==
    \A size \in HeapSizes :
      \A r \in {alloc_heap(Model, NoneLabel, "i32", size)} :
        r.m.err = "" => (r.addr .. (r.addr + size - 1)) \cap LiveCells(mem) = {}

\* the heap is empty: no cell of it has been used
HeapEmpty(memory) == \A a \in HeapAddrs : memory[a] = DefaultCell
\* the cells [lo, hi) after values have been written to them
Filled(memory, lo, hi) ==
    [a \in Addrs |-> IF a >= lo /\ a < hi THEN [memory[a] EXCEPT !.value = I(0)]
                     ELSE memory[a]]

\* C7: first-fit idempotence.  In an empty heap, for every size S that fits,
\* allocating S cells returns HEAP_BOTTOM, and once the cells are written
\* and then freed by a drop, allocating S cells again returns HEAP_BOTTOM.
\* In the runs: a let of a vec! or Box (any let but one that takes an
\* address with & or copies a word with *) that completes when every heap
\* cell is unused or was freed by a drop gets the address HEAP_BOTTOM.
C7_FirstFitIdempotence ==
    /\ HeapEmpty(mem) =>
         \A size \in 1 .. (STACK_LIMIT - HEAP_BOTTOM) :
           \A r \in {alloc_heap(Model, NoneLabel, "i32", size)} :
             /\ r.m.err = "" /\ r.addr = HEAP_BOTTOM
             /\ \A memory \in {Drop_free(Filled(r.m.mem, r.addr, r.addr + size),
                                         r.addr, r.addr + size)} :
                  \A s \in {alloc_heap([r.m EXCEPT !.mem = memory], NoneLabel, "i32", size)} :
                    s.m.err = "" /\ s.addr = HEAP_BOTTOM
    /\ /\ last.branch = "complete" /\ last.instr.k = "LetBinding"
       /\ last.instr.expr.k \notin {"Reference", "Dereference"}
       /\ \A a \in HeapAddrs : before.mem[a] = DefaultCell \/ before.mem[a].value = FREED
       => \A a \in LiveOwners(mem) \ LiveOwners(before.mem) : mem[a].value = I(HEAP_BOTTOM)

\* let v = vec![1, 2, 3]; drop(v); let v = vec![1, 2, 3]; has run: the second
\* buffer lies where the first, now dropped, one was
C7_Witness ==
    /\ program.name = "generated" /\ program.code = <<1, 5, 1>>
    /\ last.branch = "complete" /\ pc.line_idx = 3
    /\ \A a \in HEAP_BOTTOM .. (HEAP_BOTTOM + 2) : before.mem[a].freed
    /\ LiveOwners(mem) \ LiveOwners(before.mem) # {}
    /\ \A a \in LiveOwners(mem) : mem[a].value = I(HEAP_BOTTOM)

\* the labels looked up: variables and parameters of the programs, Vec
\* words, heap labels, the label None, the empty label, an unbound name
LookupLabels ==
    {Lbl("x"), Lbl("y"), Lbl("z"), Lbl("a"), Lbl("b"), Lbl("v"), Lbl("n"), Lbl("i"),
     Fld("v", "ptr"), Fld("v", "len"), Fld("v", "cap"), Idx("v", 0), Idx("heap", 4),
     Lbl("data"), NoneLabel, EmptyLabel, Lbl("unbound")}
Binds(i, label) == label \in DOMAIN call_stack[i].vars_map
OnHeap(a, label) == mem[a].label = label /\ mem[a].frame_idx = -1
\* the position in main of the last let x that has completed (0: none)
LatestLetX ==
    IF program.name = "generated"
    THEN Max(0, CHOOSE q \in 0 .. pc.line_idx :
                  /\ q > 0 => program.code[q] = 7
                  /\ \A p \in (q + 1) .. pc.line_idx : program.code[p] # 7)
    ELSE 0

\* C8: get_addr(label) is the address bound to label in the innermost frame
\* that binds it, never one of an outer frame; with no frame binding it, the
\* lowest unowned cell carrying the label; else the lookup fails.  After
\* sequential let x in one frame, x resolves to the cell of the latest one.
C8_GetAddr ==
    /\ \A label \in LookupLabels :
         \A r \in {get_addr(Model, label)} :
           IF \E i \in 1 .. Len(call_stack) : Binds(i, label)
           THEN /\ r.ok
                /\ \E i \in 1 .. Len(call_stack) :
                     /\ Binds(i, label)
                     /\ \A j \in (i + 1) .. Len(call_stack) : ~Binds(j, label)
                     /\ r.addr = call_stack[i].vars_map[label]
           ELSE IF \E a \in Addrs : OnHeap(a, label)
           THEN /\ r.ok
                /\ OnHeap(r.addr, label)
                /\ \A b \in Addrs : b < r.addr => ~OnHeap(b, label)
           ELSE ~r.ok
    /\ LatestLetX > 0 =>
         \A r \in {get_addr(Model, Lbl("x"))} :
           /\ r.ok
           /\ mem[r.addr].value = I(6 + LatestLetX)
           /\ \A a \in Addrs : mem[a].label = Lbl("x") => r.addr <= a

\* g runs inside f inside main: f's frame and g's frame both bind x, and
\* the lookup of x yields the address in g's frame
C8_Witness ==
    /\ Len(call_stack) = 3
    /\ Binds(2, Lbl("x")) /\ Binds(3, Lbl("x"))
    /\ get_addr(Model, Lbl("x")).addr = call_stack[3].vars_map[Lbl("x")]
    /\ call_stack[3].vars_map[Lbl("x")] # call_stack[2].vars_map[Lbl("x")]

\* a frame without the contexts kept in it
Bare(f) == [name |-> f.name, base_addr |-> f.base_addr, size |-> f.size,
            vars_map |-> f.vars_map, slots_allocated |-> f.slots_allocated]
\* a push_frame that would move the stack pointer below
\* STACK_LIMIT raises Stack Overflow and leaves cells, call stack and stack
\* pointer as they were (any other push adds a frame); a run ended by Stack
\* Overflow has the memory model it had before that step; every computed
\* frame size is at least 1; at most MEM_SIZE - STACK_LIMIT frames are live.
StackOverflowSafe ==
    /\ \A size \in 1 .. (MEM_SIZE - STACK_LIMIT + 1) :
         \A r \in {push_frame(Model, "f", size)} :
           IF sp - size < STACK_LIMIT
           THEN /\ r.err = "Stack Overflow"
                /\ r.mem = mem /\ r.call_stack = call_stack /\ r.sp = sp
           ELSE /\ r.err = ""
                /\ Len(r.call_stack) = Len(call_stack) + 1 /\ r.sp = sp - size
    /\ err = "Stack Overflow" /\ last.branch = "raise" =>
         /\ mem = before.mem /\ sp = before.sp
         /\ Len(call_stack) = Len(before.call_stack)
         /\ \A i \in 1 .. Len(call_stack) : Bare(call_stack[i]) = Bare(before.call_stack[i])
         /\ sp - calc_frame_size(program.functions[last.instr.expr.func_name]) < STACK_LIMIT
    /\ \A fn \in DOMAIN program.functions : calc_frame_size(program.functions[fn]) >= 1
    /\ \A i \in 1 .. Len(call_stack) : call_stack[i].size >= 1
    /\ Len(call_stack) <= MEM_SIZE - STACK_LIMIT

\* the program whose function calls itself without end stops after at most
\* two step() calls for each of the MEM_SIZE - STACK_LIMIT frames that fit,
\* and what stops it is the Stack Overflow error
RecursionArrested ==
    program.name = "recurse" =>
      /\ steps <= 2 * (MEM_SIZE - STACK_LIMIT)
      /\ ~Running => err = "Stack Overflow" /\ Len(call_stack) = MEM_SIZE - STACK_LIMIT

\* C9: a push below STACK_LIMIT raises Stack Overflow and changes nothing,
\* frame sizes are at least 1, and unbounded recursion ends in that error
\* after at most MEM_SIZE - STACK_LIMIT nested frames.
C9_StackOverflow == StackOverflowSafe /\ RecursionArrested

\* the recursion has filled the stack region with MEM_SIZE - STACK_LIMIT
\* frames and the next call has raised Stack Overflow
C9_Witness ==
    /\ program.name = "recurse"
    /\ err = "Stack Overflow"
    /\ Len(call_stack) = MEM_SIZE - STACK_LIMIT
    /\ sp = STACK_LIMIT

\* the last step completed a v.push(..) statement
PushDone ==
    /\ last.branch = "complete"
    /\ last.instr.k = "ExpressionStatement"
    /\ last.instr.expr.k = "MethodCall"
    /\ last.instr.expr.method = "push"
\* the metadata words of v as get_addr resolves them from the frames cs
VecWord(cs, memory, field) ==
    memory[frame_lookup(cs, Len(cs), Fld("v", field)).addr].value.v
VecMeta(cs, memory) ==
    [ptr |-> VecWord(cs, memory, "ptr"),
     len |-> VecWord(cs, memory, "len"),
     cap |-> VecWord(cs, memory, "cap")]
\* the value _execute_push takes as its argument: the literal pushed, or
\* the arg_0 result held by the method-call node
PushedValue ==
    IF last.instr.expr.args[1].k = "Literal"
    THEN last.instr.expr.args[1].value
    ELSE get_scalar(ctx_get(get_node_ctx(CurrentMachine, last.instr.expr.id), "arg_0"))

IsFloor(a, b, v) ==
    IF b > 0 THEN b * v <= a /\ a < b * v + b
    ELSE b * v >= a /\ a > b * v + b
\* the value of main's variable name
MainVar(name) == mem[call_stack[1].vars_map[Lbl(name)]].value
Dividing == program.name = "divide" /\ program.code[2] # 0

\* C11: for all integers a and non-zero b, `a / b` (BinaryOp) and `r /= b`
\* with r = a (CompoundAssignment) yield the floor of a / b, rounding toward
\* negative infinity; (-7) / 2 = -4.
C11_FloorDivision ==
    /\ Dividing /\ pc.line_idx >= 1 =>
         /\ err = ""
         /\ IsInt(MainVar("q"))
         /\ IsFloor(program.code[1], program.code[2], MainVar("q").v)
    /\ Dividing /\ pc.line_idx >= 3 =>
         /\ err = ""
         /\ IsInt(MainVar("r"))
         /\ IsFloor(program.code[1], program.code[2], MainVar("r").v)
    /\ program.name = "divide" /\ program.code = <<-7, 2>> /\ pc.line_idx >= 3 =>
         MainVar("q") = I(-4) /\ MainVar("r") = I(-4)

\* (-7) / 2 and r = -7; r /= 2 have both completed with -4
C11_Witness ==
    /\ program.name = "divide" /\ program.code = <<-7, 2>>
    /\ pc.line_idx = 3
    /\ last.instr.k = "CompoundAssignment"
    /\ MainVar("q") = I(-4) /\ MainVar("r") = I(-4)

(***************************************************************************)
(* C12: Scenario A                                                         *)
(***************************************************************************)
Branches == {"block_end", "complete", "return", "call", "if", "while", "eval", "raise"}
\* the cells of the pre-state of the last step bound to a and b in main
BeforeVar(name) == before.mem[before.call_stack[1].vars_map[Lbl(name)]].value
AllCellsDefault == \A a \in Addrs : mem[a] = DefaultCell

\* C12: repeated step() on `fn main(){ let a=1+1; let b=a*2; return; }`
\* reaches is_finished() (after at most 4 calls, each of which
\* is possible); just before the return executes main's frame holds a = 2 and
\* b = 4, and after it the call stack is empty and every cell is default.
C12_ScenarioA ==
    program.name = "scenario_a" =>
       /\ err = ""
       /\ steps <= 4
       /\ Running => \A r \in {step(CurrentMachine, pc)} : r.branch \in Branches \ {"raise"}
       /\ ~Running => is_finished(pc) /\ call_stack = <<>> /\ AllCellsDefault
       /\ CurInstr(pc).k = "Return" =>
            /\ Len(call_stack) = 1 /\ call_stack[1].name = "main"
            /\ MainVar("a") = I(2) /\ MainVar("b") = I(4)
       /\ last.instr.k = "Return" =>
            /\ BeforeVar("a") = I(2) /\ BeforeVar("b") = I(4)
            /\ call_stack = <<>> /\ sp = STACK_TOP + 1
            /\ AllCellsDefault
            /\ is_finished(pc)

\* the return has just executed from a frame holding a = 2 and b = 4
C12_Witness ==
    /\ program.name = "scenario_a"
    /\ last.branch = "return" /\ last.instr.k = "Return"
    /\ BeforeVar("a") = I(2) /\ BeforeVar("b") = I(4)
    /\ call_stack = <<>> /\ is_finished(pc)

(***************************************************************************)
(* C13: double free                                                        *)
(***************************************************************************)
\* a pointer word that is "null", "FREED", or the address of a freed cell
Stale(memory, v) ==
    \/ v = NULL
    \/ v = FREED
    \/ IsInt(v) /\ InRange(v.v) /\ memory[PyIdx(v.v)].freed
DropNames == {"b", "v", "p1", "p2"}

\* C13: a Drop of a Box or Vec whose pointer is already freed or "null"
\* completes without raising.  In Scenario C the second drop completes,
\* the heap cell is freed with value "FREED" and p1 and p2 both hold "null".
C13_DoubleFree ==
    /\ program.name = "double_free" =>
         /\ err = ""
         /\ pc.line_idx = 4 =>
              /\ mem[HEAP_BOTTOM].value = FREED /\ mem[HEAP_BOTTOM].freed
              /\ MainVar("p1") = NULL /\ MainVar("p2") = NULL
    /\ \A name \in DropNames :
         /\ \A p \in {get_addr(Model, Lbl(name))} :
              p.ok /\ InRange(p.addr) /\ Stale(mem, mem[PyIdx(p.addr)].value) =>
                 \A r \in {Drop_execute(Drop(name, FALSE), Model)} :
                    /\ r.status = "COMPLETE"
                    /\ r.m.mem[PyIdx(p.addr)].value = NULL
         /\ \A p \in {get_addr(Model, Fld(name, "ptr"))} :
              /\ p.ok /\ InRange(p.addr) /\ Stale(mem, mem[PyIdx(p.addr)].value)
              /\ get_addr(Model, Fld(name, "cap")).ok
              /\ get_addr(Model, Fld(name, "len")).ok
              => \A r \in {Drop_execute(Drop(name, TRUE), Model)} :
                    /\ r.status = "COMPLETE"
                    /\ r.m.mem[PyIdx(p.addr)].value = NULL
    /\ last.instr.k = "Drop" /\ ~last.instr.is_vec
       /\ Lbl(last.instr.var_name) \in DOMAIN Last(before.call_stack).vars_map
       /\ Stale(before.mem,
                before.mem[Last(before.call_stack).vars_map[Lbl(last.instr.var_name)]].value)
       => err = "" /\ last.branch = "complete"
    /\ last.instr.k = "Drop" /\ last.instr.is_vec
       /\ Fld(last.instr.var_name, "ptr") \in DOMAIN Last(before.call_stack).vars_map
       /\ Stale(before.mem,
                before.mem[Last(before.call_stack).vars_map[Fld(last.instr.var_name, "ptr")]].value)
       => err = "" /\ last.branch = "complete"

\* the second drop of Scenario C has completed on the pointer to the cell the
\* first drop freed
C13_Witness ==
    /\ program.name = "double_free" /\ pc.line_idx = 4 /\ err = ""
    /\ last.instr = Drop("p1", FALSE) /\ last.branch = "complete"
    /\ before.mem[HEAP_BOTTOM].freed
    /\ before.mem[before.call_stack[1].vars_map[Lbl("p1")]].value = I(HEAP_BOTTOM)
    /\ mem[HEAP_BOTTOM].value = FREED
    /\ MainVar("p1") = NULL /\ MainVar("p2") = NULL

\* drop(v) has run a second time, on a Vec whose ptr word was "null"
C13_VecWitness ==
    /\ last.instr.k = "Drop" /\ last.instr.is_vec /\ last.branch = "complete"
    /\ Fld("v", "ptr") \in DOMAIN Last(before.call_stack).vars_map
    /\ before.mem[Last(before.call_stack).vars_map[Fld("v", "ptr")]].value = NULL

StoredLeft == ER(<<I(7)>>, "i32", FALSE)
\* operands whose evaluation changes no cell
PureRights == {Num(2), Variable("a")}
TestRights == PureRights \cup {BoxNew(9002, Num(3)), FunctionCall(9003, "g", <<Num(1)>>)}
\* a BinaryOp whose left operand, were it evaluated, would yield 9 and leave
\* a context of its own (node 9001) in the frame
TestOp(op, right) == BinaryOp(9000, BoxNew(9001, Num(9)), op, right)
\* the machine with the context of the BinaryOp at step 1, left result stored
AtStepOne == put_ctx(Model, 9000, advance(store(EmptyCtx, "left_result", StoredLeft)))
Touched(m, id) == id \in DOMAIN Last(m.call_stack).contexts

\* C15: evaluate on a BinaryOp whose context is at step 1 never evaluates
\* the left operand again and leaves the stored left result as it is; a
\* second call in the state the first one left gives the same result and
\* changes nothing more (a completed first call), or is suspended again
\* without touching memory (a suspended first call).
C15_IdempotentSuspension ==
    /\ call_stack # <<>> =>
         \A op \in {"+", "*", "<"}, right \in TestRights :
           \A o1 \in {evaluate(TestOp(op, right), AtStepOne)} :
             /\ ctx_get(get_ctx(o1.m, 9000), "left_result") = StoredLeft
             /\ ~Touched(o1.m, 9001)
             /\ right \in PureRights => o1.m.mem = mem
             /\ right = Num(2) =>
                  o1.r = ER(<<BinaryOp_apply(op, I(7), I(2)).v>>, "i32", FALSE)
             /\ o1.m.err = "" =>
                  \A o2 \in {evaluate(TestOp(op, right), o1.m)} :
                    /\ ctx_get(get_ctx(o2.m, 9000), "left_result") = StoredLeft
                    /\ ~Touched(o2.m, 9001)
                    /\ o1.r.k = "ER" => o2.r = o1.r /\ o2.m = o1.m
                    /\ IsIncomplete(o1.r) => IsIncomplete(o2.r) /\ o2.m.mem = o1.m.mem
    /\ program.name = "call_site" /\ last.instr.k = "LetBinding" /\ last.instr.id = 1060
       /\ last.branch = "eval" =>
         /\ get_ctx(CurrentMachine, 1061).step = 1
         /\ get_scalar(ctx_get(get_ctx(CurrentMachine, 1061), "left_result")) = I(1)
         /\ mem = before.mem

\* `let b: i32 = a + g(1)`: the BinaryOp is at step 1 with a's value stored
\* and evaluate has been called on it again at least twice
C15_Witness ==
    /\ program.name = "call_site" /\ last.instr.k = "LetBinding" /\ last.instr.id = 1060
    /\ last.branch = "eval" /\ steps >= 4
    /\ get_ctx(CurrentMachine, 1061).step = 1
    /\ get_scalar(ctx_get(get_ctx(CurrentMachine, 1061), "left_result")) = I(1)

(***************************************************************************)
(* C16: node state lives in the frame                                      *)
(***************************************************************************)
\* the method-call nodes (statements `obj.method(args);`) of a function body
MethodNodes(fn_name) ==
    {program.functions[fn_name].body[i].expr.id :
       i \in {j \in 1 .. Len(program.functions[fn_name].body) :
                /\ program.functions[fn_name].body[j].k = "ExpressionStatement"
                /\ program.functions[fn_name].body[j].expr.k = "MethodCall"}}

\* C16: the resumable state of every node, method-call nodes included, lives
\* in the current frame: right after a call transition every node of the
\* callee's body is at step 0 with empty scratch, whatever an earlier
\* invocation left; so `v.push(n)` pushes the value n has in the current
\* invocation.
C16_NodeStateInFrame ==
    /\ last.branch = "call" =>
         /\ Last(call_stack).contexts = EmptyMap
         /\ \A id \in MethodNodes(pc.fn_name) : get_node_ctx(CurrentMachine, id) = EmptyCtx
    /\ PushDone /\ last.instr.expr.args[1].k = "Variable" =>
         mem[VecMeta(call_stack, mem).ptr + VecMeta(before.call_stack, before.mem).len].value
           = before.mem[frame_lookup(before.call_stack, Len(before.call_stack),
                                     Lbl(last.instr.expr.args[1].name)).addr].value

\* add(6) has pushed: n is 6 in add's frame and the cell written holds 5
C16_StalePush ==
    /\ program.name = "push_twice" /\ PushDone /\ pc.fn_name = "add"
    /\ mem[call_stack[2].vars_map[Lbl("n")]].value = I(6)
    /\ mem[VecMeta(call_stack, mem).ptr + 1].value = I(5)
    /\ VecMeta(call_stack, mem).len = 2


(***************************************************************************)
(* C17, C18: dereferences through invalid and dangling pointers            *)
(***************************************************************************)
\* the machine the last step started from
Before == Machine(before.mem, before.call_stack, before.sp, EmptyMap, "")

\* the dereference an instruction reads or writes through: the target of an
\* assignment or compound assignment, or the initializer of a let
DerefOf(instr) ==
    IF instr.k \in {"Assignment", "CompoundAssignment"}
    THEN IF instr.lvalue.k = "DereferenceLValue" THEN {instr.lvalue} ELSE {}
    ELSE IF instr.k = "LetBinding"
    THEN IF instr.expr.k = "Dereference" THEN {instr.expr} ELSE {}
    ELSE {}

\* the pointer words a dereference of n stars goes through, starting with
\* the word addr held by the pointer variable: is one of them not an
\* integer in [0, MEM_SIZE)
RECURSIVE ChainInvalid(_, _, _)
ChainInvalid(memory, addr, n) ==
    /\ n > 0
    /\ \/ BadAddr(addr)
       \/ ChainInvalid(memory, memory[addr.v].value, n - 1)

\* the address a dereference of n stars ends on (the first invalid word of
\* the chain when there is one)
RECURSIVE ChainEnd(_, _, _)
ChainEnd(memory, addr, n) ==
    IF n <= 1 THEN addr
    ELSE IF BadAddr(addr) THEN addr
    ELSE ChainEnd(memory, memory[addr.v].value, n - 1)

\* C17: a step whose instruction reads or writes through a dereference
\* (*p, **p) whose pointer chain holds a word that is not an integer in
\* [0, MEM_SIZE) ("FREED", "null", a negative integer, ...) raises an error
\* and leaves every memory cell as it was.
C17_InvalidDereference ==
    \A d \in DerefOf(last.instr) :
       \A o \in {evaluate(d.expr, Before)} :
          /\ o.m.err = "" /\ o.r.k = "ER" /\ Len(o.r.values) = 1
          /\ ChainInvalid(before.mem, o.r.values[1], d.levels)
          => err # "" /\ mem = before.mem

\* C18: a step that reads, through a dereference, a heap cell that has been
\* freed raises an error; it does not complete with a value.
C18_UseAfterFree ==
    \A d \in DerefOf(last.instr) :
       \A o \in {evaluate(d.expr, Before)} :
          /\ d.k = "Dereference"
          /\ o.m.err = "" /\ o.r.k = "ER" /\ Len(o.r.values) = 1
          /\ ~BadAddr(ChainEnd(before.mem, o.r.values[1], d.levels))
          /\ before.mem[ChainEnd(before.mem, o.r.values[1], d.levels).v].freed
          => err # ""


(***************************************************************************)
(* C19: the call transition                                                *)
(***************************************************************************)
\* some FunctionCall node of the running frame has signalled "ready to call"
Signalled(m) ==
    /\ m.err = "" /\ m.call_stack # <<>>
    /\ \E id \in DOMAIN Last(m.call_stack).contexts :
          ctx_get(Last(m.call_stack).contexts[id], "ready_to_call") = PyBool(TRUE)

\* step result r is a call transition out of position c on machine m: the
\* caller's position is saved on the return stack and, unless pushing or
\* binding raised, the callee's frame is on the stack and its first
\* instruction is the current one
CallTransition(m, c, r) ==
    /\ r.pc.ret_stack = Append(c.ret_stack, [fn_name |-> c.fn_name,
                                             line_idx |-> c.line_idx,
                                             block_stack |-> c.block_stack])
    /\ r.branch \in {"call", "raise"}
    /\ r.branch = "call" =>
          /\ Len(r.m.call_stack) = Len(m.call_stack) + 1
          /\ Last(r.m.call_stack).name = r.pc.fn_name
          /\ r.pc.line_idx = 0 /\ r.pc.block_stack = <<>>
          /\ r.ret

\* C19: whenever the instruction step() executes leaves a FunctionCall that
\* has signalled "ready to call" (all its arguments evaluated), that same
\* step() performs the call transition, wherever the call stands in the
\* instruction.
C19_CallTransition ==
    Running /\ CurInstr(pc).k # "Nop" =>
       \A x \in {execute(CurInstr(pc), CurrentMachine)} :
          Signalled(x.m) =>
             \A r \in {step(CurrentMachine, pc)} :
                CallTransition(CurrentMachine, pc, r)


(***************************************************************************)
(* C20: progress of the driver loop                                        *)
(***************************************************************************)
\* step result r is idle: step() returned False without an error and left
\* the memory model, the contexts and the position exactly as they were.
\* step() is a function of that state, so every later call is idle as well
\* and the loop `while not self.runner.step()` never ends.
Idle(m, c, r) == ~r.ret /\ r.m.err = "" /\ r.m = m /\ r.pc = c

\* C20: the driver loop makes progress: in no reachable state in which the
\* program is not finished is the next step() idle, so repeated step()
\* calls cannot return False forever with the position and the memory
\* unchanged.
C20_DriverProgress ==
    err = "" /\ ~(last.ret /\ is_finished(pc)) =>
       \A r \in {step(CurrentMachine, pc)} : ~Idle(CurrentMachine, pc, r)


(***************************************************************************)
(* C21: return values reach the waiting instruction                        *)
(***************************************************************************)
\* an expression built from literals, variables bound in the frame and
\* + - *, and the value it has in that frame: the reading of `return e;`
\* the property is stated against
RECURSIVE IsPure(_, _)
IsPure(e, frame) ==
    CASE e.k = "Literal" -> IsInt(e.value)
      [] e.k = "Variable" -> Lbl(e.name) \in DOMAIN frame.vars_map
      [] e.k = "BinaryOp" -> /\ e.op \in {"+", "-", "*"}
                             /\ IsPure(e.left, frame) /\ IsPure(e.right, frame)
      [] OTHER -> FALSE
RECURSIVE PureValue(_, _, _)
PureValue(e, memory, frame) ==
    CASE e.k = "Literal" -> e.value.v
      [] e.k = "Variable" -> memory[frame.vars_map[Lbl(e.name)]].value.v
      [] e.k = "BinaryOp" ->
           CASE e.op = "+" -> PureValue(e.left, memory, frame) + PureValue(e.right, memory, frame)
             [] e.op = "-" -> PureValue(e.left, memory, frame) - PureValue(e.right, memory, frame)
             [] e.op = "*" -> PureValue(e.left, memory, frame) * PureValue(e.right, memory, frame)

\* the statement is `let x = f(args);` or `x = f(args);`, and the variable
\* it binds or assigns
CallStatement(instr) ==
    /\ instr.k \in {"LetBinding", "Assignment"}
    /\ instr.expr.k = "FunctionCall"
    /\ instr.k = "Assignment" => instr.lvalue.k = "VariableLValue"
Target(instr) == IF instr.k = "LetBinding" THEN instr.var_name ELSE instr.lvalue.name

\* the last step completed `return e;` with e a scalar expression, and the
\* caller waits in a call statement
Returned ==
    /\ last.branch = "return" /\ err = ""
    /\ last.instr.expr.k # "NoExpr"
    /\ IsPure(last.instr.expr, Last(before.call_stack))
    /\ call_stack # <<>>
    /\ CallStatement(CurInstr(pc))

\* C21: when `return e;` (e a scalar) has executed for `let x = f(args);` or
\* `x = f(args);`, the caller's next step() completes that statement without
\* firing the call again (no frame is pushed, the position moves past the
\* statement), and x then holds the value e had in the callee's frame when
\* the return executed.  A call statement that completes leaves in x the
\* result that was waiting in its context (for a returned Vec, which binds
\* x.ptr, x.len, x.cap instead of x, see C33).
C21_ReturnValueDelivered ==
    /\ Returned =>
         \A r \in {step(CurrentMachine, pc)} :
            /\ r.branch = "complete" /\ r.ret
            /\ Len(r.m.call_stack) = Len(call_stack)
            /\ r.pc.ret_stack = pc.ret_stack
            /\ \A a \in {get_addr(r.m, Lbl(Target(CurInstr(pc))))} :
                  /\ a.ok
                  /\ r.m.mem[a.addr].value =
                        I(PureValue(last.instr.expr, before.mem, Last(before.call_stack)))
    /\ last.branch = "complete" /\ CallStatement(last.instr) =>
         \A c \in {ctx_get(get_ctx(Before, last.instr.id), "expr_result")} :
            /\ c.k = "ER"
            /\ c.typ # "Vec" =>
                  \A a \in {get_addr(Model, Lbl(Target(last.instr)))} :
                     a.ok /\ mem[a.addr].value = c.values[1]

\* z() has returned 0 into `a = z();` and the assignment has completed: a,
\* which held 7, holds 0, and z's frame is gone
C21_Witness ==
    /\ program.name = "return_zero" /\ err = ""
    /\ last.branch = "complete" /\ last.instr.k = "Assignment"
    /\ CallStatement(last.instr)
    /\ BeforeVar("a") = I(7) /\ MainVar("a") = I(0)
    /\ Len(call_stack) = 1 /\ pc.line_idx = 2

(***************************************************************************)
(* C22: a FunctionCall resumed after its callee returned yields the        *)
(* callee's result.  Stated for `return f(x);`: when f has just returned   *)
(* the value of a scalar expression into a caller whose current            *)
(* instruction is a Return of that call, the caller's next step() completes *)
(* its own return without an error, and the statement that waits for the   *)
(* outer function receives the value f returned.                           *)
(***************************************************************************)
ReturnOfCall(instr) == instr.k = "Return" /\ instr.expr.k = "FunctionCall"

ResumedReturn ==
    /\ last.branch = "return"
    /\ err = ""
    /\ last.instr.expr.k # "NoExpr"
    /\ IsPure(last.instr.expr, Last(before.call_stack))
    /\ call_stack # <<>>
    /\ ReturnOfCall(CurInstr(pc))

C22_ResumedCallYields ==
    ResumedReturn =>
       \A r \in {step(CurrentMachine, pc)} :
          /\ r.m.err = ""
          /\ r.branch = "return"
          /\ Len(r.m.call_stack) = Len(call_stack) - 1
          /\ CallStatement(CurInstr(r.pc)) =>
                \A c \in {ctx_get(get_ctx(r.m, CurInstr(r.pc).id), "expr_result")} :
                   /\ c.k = "ER"
                   /\ c.values[1] = I(PureValue(last.instr.expr, before.mem,
                                                Last(before.call_stack)))

(***************************************************************************)
(* C23: a step() call in which a Return completes (the frame is popped and *)
(* the caller's position restored) returns True, "position advanced".      *)
(***************************************************************************)
C23_ReturnReportsAdvance ==
    /\ last.branch = "return"
    /\ last.instr.k = "Return"
    /\ last.popped
    /\ err = ""
    /\ Len(call_stack) = Len(before.call_stack) - 1
    => last.ret

AtBodyEnd ==
    /\ err = ""
    /\ call_stack # <<>>
    /\ pc.block_stack = <<>>
    /\ pc.line_idx >= Len(CurBody(pc))

\* an explicit `return;` (a node of its own) executed by step() in this state
ExplicitReturn ==
    step_executed(pc, Return(0, NoExpr), execute(Return(0, NoExpr), CurrentMachine))

C25_ImplicitReturn ==
    /\ AtBodyEnd /\ pc.ret_stack # <<>> =>
          \A r \in {step(CurrentMachine, pc)} :
             /\ r.m.err = ""
             /\ r.branch = "block_end"
             /\ r.m = pop_frame(CurrentMachine)
             /\ Len(r.m.call_stack) = Len(call_stack) - 1
             /\ Position(r.pc) = Last(pc.ret_stack)
             /\ r.pc.ret_stack = Front(pc.ret_stack)
             /\ \A e \in {ExplicitReturn} : e.m = r.m /\ e.pc = r.pc
    /\ AtBodyEnd /\ pc.ret_stack = <<>> => is_finished(pc)
    /\ last.branch = "block_end" /\ last.popped /\ err = "" =>
          /\ Len(call_stack) = Len(before.call_stack) - 1
          /\ Position(pc) = last.caller
          /\ \A a \in FrameRange(Last(before.call_stack)) : mem[a] = DefaultCell

\* h's body ran off its end and main is back at `h();`
C25_Witness ==
    /\ program.name = "void_return"
    /\ err = ""
    /\ last.branch = "block_end"
    /\ last.popped
    /\ last.instr = Nop
    /\ Len(before.call_stack) = 2
    /\ Last(before.call_stack).name = "h"
    /\ Len(call_stack) = 1
    /\ pc.fn_name = "main"
    /\ pc.line_idx = 0

(***************************************************************************)
(* C26: the scheduler descends into a branch of an IfElseBlock only after  *)
(* a branch has been recorded.  A step() on an IfElseBlock that leaves the *)
(* condition suspended (no chosen branch in the block's context) pushes no *)
(* branch body and leaves the instruction index where it is.               *)
(***************************************************************************)
C26_NoDescentWhileSuspended ==
    err = "" /\ call_stack # <<>> /\ CurInstr(pc).k = "IfElseBlock" =>
       \A r \in {step(CurrentMachine, pc)} :
          /\ r.m.err = ""
          /\ ctx_get(get_ctx(r.m, CurInstr(pc).id), "chosen_branch") = PyNone
          => r.pc = pc

(***************************************************************************)
(* C27: an if/else whose condition evaluates without suspending runs       *)
(* exactly one branch, the then body when the condition is true (non-zero) *)
(* and the else body otherwise, and when the branch's instructions have    *)
(* all executed the next instruction executed is the one that follows the  *)
(* if in the enclosing list (the loop header when the if ends a while      *)
(* body).                                                                  *)
(***************************************************************************)
Comparisons == {"==", "!=", "<", ">"}

\* a condition over integer literals and variables of the frame, and whether
\* it is true for the values the frame holds
PlainCondition(e, frame) ==
    \/ IsPure(e, frame)
    \/ /\ e.k = "BinaryOp" /\ e.op \in Comparisons
       /\ IsPure(e.left, frame) /\ IsPure(e.right, frame)
ConditionTrue(e, memory, frame) ==
    IF e.k = "BinaryOp" /\ e.op \in Comparisons
    THEN CASE e.op = "==" -> PureValue(e.left, memory, frame) = PureValue(e.right, memory, frame)
           [] e.op = "!=" -> PureValue(e.left, memory, frame) # PureValue(e.right, memory, frame)
           [] e.op = "<" -> PureValue(e.left, memory, frame) < PureValue(e.right, memory, frame)
           [] e.op = ">" -> PureValue(e.left, memory, frame) > PureValue(e.right, memory, frame)
    ELSE PureValue(e, memory, frame) # 0

\* the position c without its innermost block, at that block's resume index
Outer(c) == [c EXCEPT !.line_idx = Last(c.block_stack).resume_idx,
                      !.block_stack = Front(c.block_stack)]

\* the position of the next instruction executed from c: ends of blocks are
\* left one after the other without executing anything
RECURSIVE NextExecuted(_)
NextExecuted(c) ==
    IF c.line_idx < Len(CurBody(c)) \/ c.block_stack = <<>> THEN c
    ELSE NextExecuted(Outer(c))

\* the if whose branch is the innermost open block of c (Nop if that block
\* is not a branch of an if)
OwnerIf(c) ==
    IF c.block_stack = <<>> THEN Nop
    ELSE IF Last(c.block_stack).resume_idx = 0 THEN Nop
    ELSE The({ IF i.k = "IfElseBlock" /\ Last(c.block_stack).body \in {i.then_body, i.else_body}
               THEN i ELSE Nop
               : i \in {CurBody(Outer(c))[Last(c.block_stack).resume_idx]} })

\* the if at c is the last statement of a while body
EndsLoopBody(c) ==
    /\ c.block_stack # <<>>
    /\ c.line_idx = Len(CurBody(c)) - 1
    /\ CurInstr(Outer(c)).k = "WhileLoop"
    /\ CurInstr(Outer(c)).body = Last(c.block_stack).body

AtIf ==
    /\ err = "" /\ call_stack # <<>>
    /\ CurInstr(pc).k = "IfElseBlock"
    /\ PlainCondition(CurInstr(pc).condition, Last(call_stack))

\* the last instruction of a branch of an if is about to execute
AtBranchEnd ==
    /\ err = "" /\ call_stack # <<>>
    /\ OwnerIf(pc) # Nop
    /\ pc.line_idx = Len(CurBody(pc)) - 1

C27_OneBranchThenOn ==
    /\ AtIf =>
          \A r \in {step(CurrentMachine, pc)} :
             /\ r.m.err = "" /\ r.ret /\ r.branch = "if"
             /\ r.m.mem = mem
             /\ r.pc.line_idx = 0
             /\ r.pc.block_stack =
                  Append(pc.block_stack,
                         [body |-> IF ConditionTrue(CurInstr(pc).condition, mem,
                                                    Last(call_stack))
                                   THEN CurInstr(pc).then_body
                                   ELSE CurInstr(pc).else_body,
                          resume_idx |-> pc.line_idx + 1])
             /\ OwnerIf(r.pc) = CurInstr(pc)
             /\ \/ r.pc.line_idx < Len(CurBody(r.pc))
                \/ /\ NextExecuted(r.pc) = NextExecuted([pc EXCEPT !.line_idx = @ + 1])
                   /\ EndsLoopBody(pc) => NextExecuted(r.pc) = Outer(pc)
    /\ AtBranchEnd =>
          \A r \in {step(CurrentMachine, pc)} :
             r.branch = "complete" =>
                /\ NextExecuted(r.pc) = NextExecuted(Outer(pc))
                /\ Outer(pc).line_idx < Len(CurBody(Outer(pc))) => r.pc = Outer(pc)
                /\ EndsLoopBody(Outer([pc EXCEPT !.line_idx = @ - 1])) =>
                      /\ r.pc = Outer(Outer(pc))
                      /\ CurInstr(r.pc).k = "WhileLoop"
    /\ program.name = "if_in_loop" /\ err = "" /\ last.ret /\ is_finished(pc) =>
          MainVar("a") = I(3) /\ MainVar("n") = I(3) /\ MainVar("d") = I(3)

\* the else branch of the if that ends the loop body has run in the second
\* iteration and control is back at the loop header
C27_Witness ==
    /\ program.name = "if_in_loop"
    /\ err = ""
    /\ last.branch = "complete"
    /\ last.instr.id = 1359
    /\ last.opened = 2
    /\ pc.block_stack = <<>>
    /\ CurInstr(pc).k = "WhileLoop"
    /\ MainVar("a") = I(3)
    /\ MainVar("n") = I(3)

(***************************************************************************)
(* C28: an IfElseBlock with no else branch and a false condition is        *)
(* skipped by the step that resolves the condition: after that single step *)
(* the block stack is unchanged and the instruction index points at the    *)
(* instruction following the if.                                           *)
(***************************************************************************)
C28_SkipsOverIf ==
    /\ AtIf
    /\ CurInstr(pc).else_body = <<>>
    /\ ~ConditionTrue(CurInstr(pc).condition, mem, Last(call_stack))
    => \A r \in {step(CurrentMachine, pc)} :
          /\ r.m.err = ""
          /\ r.pc.block_stack = pc.block_stack
          /\ r.pc.line_idx = pc.line_idx + 1

(***************************************************************************)
(* C29: a while loop evaluates its condition against the current memory    *)
(* before every iteration.  For a condition over integer literals and      *)
(* variables of the frame, the step() on the loop header enters the body   *)
(* exactly when the condition is true for the values the frame holds now,  *)
(* and otherwise moves the index to the instruction following the loop;    *)
(* when the last body instruction completes, control is back at the loop   *)
(* header.  `let a: i32 = 5; while a != 3 { a-=1; }` reaches the statement *)
(* after the loop with a = 3 after exactly two iterations.                 *)
(***************************************************************************)
AtWhile ==
    /\ err = "" /\ call_stack # <<>>
    /\ CurInstr(pc).k = "WhileLoop"
    /\ PlainCondition(CurInstr(pc).condition, Last(call_stack))

\* the last instruction of a while body is about to execute
AtLoopBodyEnd ==
    /\ err = "" /\ call_stack # <<>>
    /\ pc.block_stack # <<>>
    /\ pc.line_idx = Len(CurBody(pc)) - 1
    /\ CurInstr(Outer(pc)).k = "WhileLoop"
    /\ CurInstr(Outer(pc)).body = Last(pc.block_stack).body

C29_WhileReevaluates ==
    /\ AtWhile =>
          \A r \in {step(CurrentMachine, pc)} :
             /\ r.m.err = ""
             /\ r.ret /\ r.branch = "while"
             /\ r.m.mem = mem
             /\ IF ConditionTrue(CurInstr(pc).condition, mem, Last(call_stack))
                THEN /\ r.pc.line_idx = 0
                     /\ r.pc.block_stack =
                          Append(pc.block_stack, [body |-> CurInstr(pc).body,
                                                  resume_idx |-> pc.line_idx])
                ELSE /\ r.pc.line_idx = pc.line_idx + 1
                     /\ r.pc.block_stack = pc.block_stack
    /\ AtLoopBodyEnd =>
          \A r \in {step(CurrentMachine, pc)} :
             r.branch = "complete" => r.pc = Outer(pc)
    /\ program.name = "example9" /\ err = "" /\ call_stack # <<>>
       /\ CurInstr(pc).k = "Return" =>
          MainVar("a") = I(3) /\ steps = 6
    /\ program.name = "nested_condition" /\ err = "" /\ last.ret /\ is_finished(pc) =>
          MainVar("a") = I(3)

(***************************************************************************)
(* C30: entering a while-loop body resets, in the current frame, the       *)
(* execution state of the loop and of every node nested in its condition   *)
(* and body (statements, nested if/while, function calls, method calls),   *)
(* and the reset never fails: after the step() that enters the body every  *)
(* such node is at step 0 with empty scratch and nothing was raised.       *)
(***************************************************************************)
RECURSIVE NodeIds(_)
NodeIds(node) ==
    (IF "id" \in DOMAIN node THEN {node.id} ELSE {})
    \cup UNION {NodeIds(Children(node)[i]) : i \in 1 .. Len(Children(node))}

C30_LoopEntryResets ==
    AtWhile /\ ConditionTrue(CurInstr(pc).condition, mem, Last(call_stack)) =>
       \A r \in {step(CurrentMachine, pc)} :
          /\ r.m.err = ""
          /\ r.pc.block_stack # <<>>
          /\ Last(r.pc.block_stack).body = CurInstr(pc).body
          /\ \A id \in NodeIds(CurInstr(pc)) :
                /\ get_ctx(r.m, id) = EmptyCtx
                /\ get_node_ctx(r.m, id) = EmptyCtx

(***************************************************************************)
(* C31: finished is terminal.  In a state where is_finished() is true, a   *)
(* further step() call raises nothing, leaves is_finished() true, changes  *)
(* no memory cell and no frame, and executes no instruction; this includes *)
(* the state main's return leaves when it runs inside an if or while body. *)
(***************************************************************************)
C31_FinishedIsTerminal ==
    err = "" /\ is_finished(pc) =>
       \A r \in {step(CurrentMachine, pc)} :
          /\ r.m.err = ""
          /\ is_finished(r.pc)
          /\ r.m.mem = mem
          /\ r.m.call_stack = call_stack
          /\ r.branch = "block_end"


(***************************************************************************)
(* C32: scalars and fixed-size arrays are passed by value                  *)
(***************************************************************************)
\* the frame index alloc_stack_var stamps on the cells of the top frame
TopFrameIdx == Len(call_stack) - 1
\* the cells that belong to the frames below the top one: their reserved
\* ranges and every cell stamped with one of their indices
CallerCells ==
    UNION {FrameRange(call_stack[i]) : i \in 1 .. (Len(call_stack) - 1)}
    \cup {a \in Addrs : before.mem[a].frame_idx \in 0 .. (Len(call_stack) - 2)}
\* argument i of the call the last step fired, and the parameter it binds
ArgOf(i) == last.instr.expr.args[i]
ParamOf(i) == program.functions[pc.fn_name].params[i]
\* the parameter cell at offset j is in the new frame and holds value v
ParamCell(i, j, v) ==
    LET a == Last(call_stack).vars_map[Lbl(ParamOf(i).name)] + j
    IN /\ a \in FrameRange(Last(call_stack))
       /\ mem[a].frame_idx = TopFrameIdx
       /\ mem[a].value = v
\* the last step ran a statement of a called function that writes to the
\* parameter p of that function: `p = e;`, `p op= e;` or `p[i] = e;` with i
\* inside the array
WritesParam ==
    /\ err = "" /\ Len(before.call_stack) >= 2 /\ Len(call_stack) = Len(before.call_stack)
    /\ last.instr.k \in {"Assignment", "CompoundAssignment"}
    /\ \E i \in 1 .. Len(program.functions[pc.fn_name].params) :
          \/ /\ last.instr.lvalue.k = "VariableLValue"
             /\ last.instr.lvalue.name = ParamOf(i).name
          \/ /\ last.instr.lvalue.k = "ArrayIndexLValue"
             /\ last.instr.lvalue.array = Variable(ParamOf(i).name)
             /\ IsArrayTyp(ParamOf(i).typ)
             /\ last.instr.lvalue.index.k = "Literal"
             /\ last.instr.lvalue.index.value.v \in 0 .. (ArrayTypLen(ParamOf(i).typ) - 1)

\* C32: scalars and fixed-size arrays are passed by value.  At the call
\* transition every scalar or `[T; N]` parameter of the callee has its cells
\* in the callee's frame, holding copies of the argument's values (all N
\* elements for an array), and the call changes no cell of the caller; a
\* statement of the callee that writes to a parameter leaves every cell of
\* the caller's frames unchanged.  In EXAMPLE_PROGRAM4 after `arr[1] = 99`
\* the callee's arr is [99, 99] and main's a is still [99, 2].
C32_PassByValue ==
    /\ last.branch = "call" /\ err = "" /\ last.instr.expr.k = "FunctionCall" =>
         /\ \A i \in 1 .. Len(program.functions[pc.fn_name].params) :
              /\ IsArrayTyp(ParamOf(i).typ) /\ ArgOf(i).k = "Variable" =>
                   \A j \in 0 .. (ArrayTypLen(ParamOf(i).typ) - 1) :
                      ParamCell(i, j,
                        before.mem[Last(before.call_stack).vars_map[Lbl(ArgOf(i).name)] + j].value)
              /\ ~IsArrayTyp(ParamOf(i).typ) /\ ~IsVecTyp(ParamOf(i).typ)
                 /\ ~IsPtrTyp(ParamOf(i).typ) /\ IsPure(ArgOf(i), Last(before.call_stack)) =>
                   ParamCell(i, 0,
                     I(PureValue(ArgOf(i), before.mem, Last(before.call_stack))))
         /\ \A a \in CallerCells : mem[a] = before.mem[a]
    /\ WritesParam => \A a \in CallerCells : mem[a] = before.mem[a]
    /\ program.name = "example4" /\ last.branch = "complete" /\ last.instr.id = 1511 =>
         /\ mem[call_stack[2].vars_map[Lbl("arr")]].value = I(99)
         /\ mem[call_stack[2].vars_map[Lbl("arr")] + 1].value = I(99)
         /\ MainVar("a") = I(99)
         /\ mem[call_stack[1].vars_map[Lbl("a")] + 1].value = I(2)

\* helper's `arr[1] = 99` has executed: the copy changed, main's array did not
C32_Witness ==
    /\ program.name = "example4" /\ err = "" /\ WritesParam
    /\ last.instr.lvalue.k = "ArrayIndexLValue" /\ last.branch = "complete"
    /\ mem[call_stack[2].vars_map[Lbl("arr")] + 1].value = I(99)
    /\ mem[call_stack[1].vars_map[Lbl("a")] + 1].value = I(2)


(***************************************************************************)
(* C33: the layout of the three metadata words of a Vec                    *)
(***************************************************************************)
\* the names bound as a Vec in a frame
VecNames(frame) == {l.n : l \in {k \in DOMAIN frame.vars_map : k.f \in {"ptr", "len", "cap"}}}
\* the three words of Vec x of a frame are bound, cap lowest, then len, ptr
VecLayout(frame, x) ==
    /\ {Fld(x, "cap"), Fld(x, "len"), Fld(x, "ptr")} \subseteq DOMAIN frame.vars_map
    /\ frame.vars_map[Fld(x, "len")] = frame.vars_map[Fld(x, "cap")] + 1
    /\ frame.vars_map[Fld(x, "ptr")] = frame.vars_map[Fld(x, "cap")] + 2
\* the values of the three words of Vec x of a frame
VecWords(memory, frame, x) ==
    [ptr |-> memory[frame.vars_map[Fld(x, "ptr")]].value,
     len |-> memory[frame.vars_map[Fld(x, "len")]].value,
     cap |-> memory[frame.vars_map[Fld(x, "cap")]].value]
\* the last step executed `return v;` for a Vec v of the callee, into a
\* caller that waits in `let w = f(..);`
VecReturned ==
    /\ last.branch = "return" /\ err = ""
    /\ last.instr.expr.k = "Variable"
    /\ last.instr.expr.name \in VecNames(Last(before.call_stack))
    /\ call_stack # <<>>
    /\ CurInstr(pc).k = "LetBinding" /\ CurInstr(pc).expr.k = "FunctionCall"

AtVecLet ==
    /\ err = "" /\ call_stack # <<>>
    /\ CurInstr(pc).k = "LetBinding"
    /\ CurInstr(pc).expr.k = "Variable"
    /\ CurInstr(pc).expr.name \in VecNames(Last(call_stack))

\* C34: a let whose initializer evaluates to a Vec completes without an
\* exception and allocates w.ptr, w.len, w.cap holding copies of the
\* source's ptr, len and cap, both for a Vec variable (`let w = v;`) and
\* for a call that returned a Vec.
C34_VecLetCopies ==
    /\ AtVecLet =>
         \A r \in {step(CurrentMachine, pc)} :
            /\ r.m.err = "" /\ r.branch = "complete"
            /\ CurInstr(pc).var_name \in VecNames(Last(r.m.call_stack))
            /\ VecWords(r.m.mem, Last(r.m.call_stack), CurInstr(pc).var_name)
                 = VecWords(mem, Last(call_stack), CurInstr(pc).expr.name)
    /\ VecReturned =>
         \A r \in {step(CurrentMachine, pc)} :
            /\ r.m.err = "" /\ r.branch = "complete"
            /\ VecWords(r.m.mem, Last(r.m.call_stack), CurInstr(pc).var_name)
                 = VecWords(before.mem, Last(before.call_stack), last.instr.expr.name)


(***************************************************************************)
(* C36: what a drop changes                                                *)
(***************************************************************************)
\* a cell as a drop leaves a heap cell it frees
FreedCell(cell) == [cell EXCEPT !.freed = TRUE, !.value = FREED, !.label = NoneLabel]
\* the last step executed drop(x) for a Vec x whose ptr and cap words held
\* integers; the addresses of the three words
VecDropped ==
    /\ last.branch = "complete" /\ err = ""
    /\ last.instr.k = "Drop" /\ last.instr.is_vec
    /\ IsInt(before.mem[get_addr(Before, Fld(last.instr.var_name, "ptr")).addr].value)
    /\ IsInt(before.mem[get_addr(Before, Fld(last.instr.var_name, "cap")).addr].value)
\* the last step executed drop(b) for a pointer b that held an integer
BoxDropped ==
    /\ last.branch = "complete" /\ err = ""
    /\ last.instr.k = "Drop" /\ ~last.instr.is_vec
    /\ IsInt(before.mem[get_addr(Before, Lbl(last.instr.var_name)).addr].value)

\* C36: drop of a Vec with integer ptr and cap turns exactly the cells of
\* [ptr, ptr + cap), which are heap cells, into freed cells with value
\* "FREED" and no label, sets the ptr word to "null" and the len and cap
\* words to 0, and changes no other cell; drop of a Box frees exactly the
\* one heap cell pointed to and sets the pointer slot to "null".
C36_DropEffects ==
    /\ VecDropped =>
         \A w \in {[f \in {"ptr", "len", "cap"} |->
                      get_addr(Before, Fld(last.instr.var_name, f)).addr]} :
            \A lo \in {before.mem[w["ptr"]].value.v} :
               \A hi \in {lo + before.mem[w["cap"]].value.v} :
                  /\ lo .. (hi - 1) \subseteq HeapAddrs
                  /\ \A a \in Addrs :
                       mem[a] =
                         IF a \in lo .. (hi - 1) THEN FreedCell(before.mem[a])
                         ELSE IF a = w["ptr"]
                         THEN [before.mem[a] EXCEPT !.value = NULL, !.is_pointer = FALSE]
                         ELSE IF a = w["len"] \/ a = w["cap"]
                         THEN [before.mem[a] EXCEPT !.value = I(0)]
                         ELSE before.mem[a]
    /\ BoxDropped =>
         \A pa \in {get_addr(Before, Lbl(last.instr.var_name)).addr} :
            \A ha \in {before.mem[pa].value.v} :
               /\ ha \in HeapAddrs
               /\ \A a \in Addrs :
                    mem[a] =
                      IF a = ha THEN FreedCell(before.mem[a])
                      ELSE IF a = pa
                      THEN [before.mem[a] EXCEPT !.value = NULL, !.is_pointer = FALSE]
                      ELSE before.mem[a]
    /\ last.instr.k = "Drop" /\ last.branch = "complete" /\ err = "" =>
         call_stack = before.call_stack /\ sp = before.sp

\* drop(v) of vec![1, 2, 3] has executed: the three buffer cells are freed
\* and the metadata reads null, 0, 0
C36_Witness ==
    /\ VecDropped
    /\ before.mem[get_addr(Before, Fld(last.instr.var_name, "cap")).addr].value = I(3)
    /\ \A a \in 1 .. 3 : mem[a].freed /\ mem[a].value = FREED /\ ~before.mem[a].freed
    /\ VecWords(mem, Last(call_stack), last.instr.var_name)
         = [ptr |-> NULL, len |-> I(0), cap |-> I(0)]


(***************************************************************************)
(* C35: a returned fixed-size array survives the teardown of its frame     *)
(***************************************************************************)
\* the last step executed `return arr;` for a `[T; N]` variable of the
\* callee, into a caller that waits in `let a: [T; N] = f(..);`
ArrayReturned ==
    /\ last.branch = "return" /\ err = ""
    /\ last.instr.expr.k = "Variable"
    /\ Lbl(last.instr.expr.name) \in DOMAIN Last(before.call_stack).vars_map
    /\ IsArrayTyp(before.mem[Last(before.call_stack).vars_map[Lbl(last.instr.expr.name)]].typ)
    /\ call_stack # <<>>
    /\ CurInstr(pc).k = "LetBinding" /\ CurInstr(pc).expr.k = "FunctionCall"
    /\ IsArrayTyp(CurInstr(pc).typ)
\* the address arr had in the callee's frame, and its length
ReturnedBase == Last(before.call_stack).vars_map[Lbl(last.instr.expr.name)]
ReturnedLen == ArrayTypLen(before.mem[ReturnedBase].typ)

\* C35: for `return arr;` with arr a `[T; N]` local of the callee, the
\* result delivered to the waiting let consists of the N values arr held in
\* the callee's frame when the return executed, although that frame has been
\* popped and its cells are default cells again; and when the caller's
\* `let a: [T; N] = f();` completes, a[0..N) hold those values.
C35_ArraySurvivesReturn ==
    ArrayReturned =>
       /\ Len(call_stack) = Len(before.call_stack) - 1
       /\ \A j \in 0 .. (ReturnedLen - 1) : mem[ReturnedBase + j] = DefaultCell
       /\ \A c \in {ctx_get(get_ctx(Model, CurInstr(pc).id), "expr_result")} :
             /\ c.k = "ER"
             /\ c.values = [j \in 1 .. ReturnedLen |-> before.mem[ReturnedBase + j - 1].value]
       /\ \A r \in {step(CurrentMachine, pc)} :
             /\ r.m.err = "" /\ r.branch = "complete"
             /\ \A a \in {get_addr(r.m, Lbl(CurInstr(pc).var_name))} :
                   /\ a.ok
                   /\ \A j \in 0 .. (ReturnedLen - 1) :
                         r.m.mem[a.addr + j].value = before.mem[ReturnedBase + j].value

\* EXAMPLE_PROGRAM5: helper returned arr = [1, 2]; its frame is gone and the
\* two values wait in the context of main's let
C35_Witness ==
    /\ program.name = "example5" /\ ArrayReturned
    /\ ReturnedLen = 2
    /\ before.mem[ReturnedBase].value = I(1) /\ before.mem[ReturnedBase + 1].value = I(2)
    /\ Len(call_stack) = 1


(***************************************************************************)
(* C37: array-index assignment has no bounds check                         *)
(***************************************************************************)
\* the last step completed `arr[i] = e;` with i and e integer literals and
\* arr an array variable of the current frame
IndexWritten ==
    /\ last.branch = "complete" /\ err = ""
    /\ last.instr.k = "Assignment"
    /\ last.instr.lvalue.k = "ArrayIndexLValue"
    /\ last.instr.lvalue.array.k = "Variable"
    /\ last.instr.lvalue.index.k = "Literal"
    /\ last.instr.expr.k = "Literal"
    /\ Lbl(last.instr.lvalue.array.name) \in DOMAIN Last(call_stack).vars_map
\* base(arr) + i for that statement, and the length of arr
WrittenAddr ==
    Last(call_stack).vars_map[Lbl(last.instr.lvalue.array.name)]
    + last.instr.lvalue.index.value.v
WrittenLen ==
    ArrayTypLen(mem[Last(call_stack).vars_map[Lbl(last.instr.lvalue.array.name)]].typ)
\* step() is about to execute such a statement
AtIndexWrite ==
    /\ err = "" /\ call_stack # <<>>
    /\ CurInstr(pc).k = "Assignment"
    /\ CurInstr(pc).lvalue.k = "ArrayIndexLValue"
    /\ CurInstr(pc).lvalue.array.k = "Variable"
    /\ CurInstr(pc).lvalue.index.k = "Literal"
    /\ CurInstr(pc).expr.k = "Literal"
    /\ Lbl(CurInstr(pc).lvalue.array.name) \in DOMAIN Last(call_stack).vars_map
    /\ Last(call_stack).vars_map[Lbl(CurInstr(pc).lvalue.array.name)]
         + CurInstr(pc).lvalue.index.value.v \in Addrs

\* C37: `arr[i] = e` writes e to the cell at base(arr) + i whether or not i
\* is inside the array: the statement raises nothing as long as the address
\* is a cell of the memory, the value of that cell becomes e and nothing
\* else changes (no other cell, no other field of that cell, no frame).  In
\* EXAMPLE_PROGRAM12 `arr[5] = -99` in tampering() puts -99 into main's
\* bank, which held 25000.
C37_NoBoundsCheck ==
    /\ AtIndexWrite => \A r \in {step(CurrentMachine, pc)} : r.m.err = ""
    /\ IndexWritten =>
         /\ \A a \in Addrs :
               mem[a] = IF a = WrittenAddr
                        THEN [before.mem[a] EXCEPT !.value = last.instr.expr.value]
                        ELSE before.mem[a]
         /\ Len(call_stack) = Len(before.call_stack) /\ sp = before.sp
         /\ \A i \in 1 .. Len(call_stack) : Bare(call_stack[i]) = Bare(before.call_stack[i])
    /\ program.name = "example12" /\ IndexWritten =>
         /\ last.instr.lvalue.index.value.v >= WrittenLen
         /\ WrittenAddr = call_stack[1].vars_map[Lbl("bank")]
         /\ WrittenAddr \notin FrameRange(call_stack[2])
         /\ BeforeVar("bank") = I(25000)
         /\ MainVar("bank") = I(0 - 99)

\* C37, amended: as C37 above, except for what changes in the one cell
\* written: its value becomes e, its pointer flag becomes that of the result
\* of e (false for an integer literal) and its type tag becomes the type of
\* e if it was empty; label, freed mark and frame index stay, and no other
\* cell and no frame changes.  In `arr[2] = 7` on a two-element array next
\* to main's Box pointer b, b's cell holds 7 and is no pointer any more.
C37_WritesValueAndFlags ==
    /\ AtIndexWrite => \A r \in {step(CurrentMachine, pc)} : r.m.err = ""
    /\ IndexWritten =>
         /\ \A a \in Addrs :
               mem[a] = IF a = WrittenAddr
                        THEN [before.mem[a] EXCEPT
                                !.value = last.instr.expr.value,
                                !.is_pointer = FALSE,
                                !.typ = IF @ = "" THEN last.instr.expr.typ ELSE @]
                        ELSE before.mem[a]
         /\ Len(call_stack) = Len(before.call_stack) /\ sp = before.sp
         /\ \A i \in 1 .. Len(call_stack) : Bare(call_stack[i]) = Bare(before.call_stack[i])
    /\ program.name = "example12" /\ IndexWritten =>
         /\ last.instr.lvalue.index.value.v >= WrittenLen
         /\ WrittenAddr = call_stack[1].vars_map[Lbl("bank")]
         /\ WrittenAddr \notin FrameRange(call_stack[2])
         /\ BeforeVar("bank") = I(25000)
         /\ MainVar("bank") = I(0 - 99)
    /\ program.name = "poke" /\ IndexWritten =>
         /\ WrittenAddr = call_stack[1].vars_map[Lbl("b")]
         /\ before.mem[WrittenAddr].is_pointer /\ ~mem[WrittenAddr].is_pointer
         /\ MainVar("b") = I(7)

\* tampering() has executed `arr[5] = -99`: index 5 of a 4-element array,
\* and the cell written is main's bank
C37_Witness ==
    /\ program.name = "example12" /\ IndexWritten
    /\ Len(call_stack) = 2
    /\ last.instr.lvalue.index.value.v = 5 /\ WrittenLen = 4
    /\ MainVar("bank") = I(0 - 99)


(***************************************************************************)
(* C38: what a function return changes                                     *)
(***************************************************************************)
\* the last step returned from a function: its frame was popped
FrameReturned == last.popped /\ err = "" /\ before.call_stack # <<>>

\* C38: the step that returns from a function changes only cells of the
\* popped frame's reserved range: every heap cell, in particular a box or
\* Vec buffer the callee allocated and never dropped, and every cell of the
\* remaining frames is as it was before the step, and the remaining frames
\* keep their bindings.  After mk() of `let b = Box::new(5); let v =
\* vec![1];` has returned, the cells 1 and 2 still hold 5 and 1, not freed.
C38_ReturnTouchesOwnFrame ==
    /\ FrameReturned =>
         /\ \A a \in Addrs \ FrameRange(Last(before.call_stack)) : mem[a] = before.mem[a]
         /\ \A a \in HeapAddrs : mem[a] = before.mem[a]
         /\ Len(call_stack) = Len(before.call_stack) - 1
         /\ \A i \in 1 .. Len(call_stack) : Bare(call_stack[i]) = Bare(before.call_stack[i])
    /\ FrameReturned /\ program.name = "leak" /\ call_stack # <<>> =>
         /\ mem[1].value = I(5) /\ ~mem[1].freed
         /\ mem[2].value = I(1) /\ ~mem[2].freed
         /\ \A a \in Addrs : mem[a].is_pointer => mem[a].value \notin {I(1), I(2)}

\* mk() has returned to main: its frame is gone, the box cell and the Vec
\* buffer it allocated are still allocated and nothing points to them
C38_Witness ==
    /\ program.name = "leak" /\ FrameReturned /\ Len(call_stack) = 1
    /\ before.mem[before.call_stack[2].vars_map[Lbl("b")]].value = I(1)
    /\ mem[1].value = I(5) /\ ~mem[1].freed
    /\ mem[2].value = I(1) /\ ~mem[2].freed


(***************************************************************************)
(* C39: operators of equal precedence are left-associative                 *)
(***************************************************************************)
\* the program is `let q: i32 = a op1 b op2 c;`; its operands and operators
ArithA == program.code[1]
ArithOp1 == ArithOps[program.code[2]]
ArithB == program.code[3]
ArithOp2 == ArithOps[program.code[4]]
ArithC == program.code[5]
\* the tree (a op1 b) op2 c, node ids aside
LeftNested(e) ==
    /\ e.k = "BinaryOp" /\ e.op = ArithOp2 /\ e.right = Num(ArithC)
    /\ e.left.k = "BinaryOp" /\ e.left.op = ArithOp1
    /\ e.left.left = Num(ArithA) /\ e.left.right = Num(ArithB)
\* evaluation from left to right: a op1 b first, then op2 c
LeftToRight ==
    The({ IF first.err # "" THEN first ELSE BinaryOp_apply(ArithOp2, first.v, I(ArithC))
          : first \in {BinaryOp_apply(ArithOp1, I(ArithA), I(ArithB))} })

\* C39: for operands a, b, c and two operators of equal precedence the
\* parser builds the tree (a op1 b) op2 c, in particular (a - b) + c,
\* (a / b) * c and (a * b) / c, and whenever evaluation from left to right
\* divides by no zero, `let q: i32 = a op1 b op2 c;` completes with q equal
\* to the value of that evaluation under floor division.
C39_LeftAssociative ==
    program.name = "arith" =>
       /\ LeftNested(parse_expression(ArithText(program.code), 0))
       /\ pc.line_idx >= 1 /\ LeftToRight.err = "" =>
            /\ err = ""
            /\ MainVar("q") = LeftToRight.v

====
